---- MODULE Spec2Model ----
(***************************************************************************)
(* Model of wsr_parser.py (class WSRParser and main):                      *)
(*   parse_wsr_file             - the records of one report file           *)
(*   main                       - the file loop and the calls of the sinks *)
(*   upload_to_supabase         - bulk upload in batches of batch_size     *)
(*   create_google_sheets_tabs  - grouping by legal entity and week        *)
(*   create_sheet_tab           - one pivot tab: resolve, sign-adjust,     *)
(*                                write                                    *)
(*   load_account_mapping       - the account mapping of the Key tab       *)
(* and of the batch loop of jj_wsr_bot.py (JimmyJohnsWSRBot.run with       *)
(* select_store_batch).                                                    *)
(* A Python str is a sequence of one-character strings, so that lstrip,    *)
(* split, lower and concatenation are computed as Python computes them.    *)
(* An amount (a float in the source) is an integer.  A remote call (an     *)
(* insert, a spreadsheets().get / batchUpdate / values().update) is one    *)
(* step, which either returns or raises.                                   *)
(***************************************************************************)
EXTENDS Integers, Sequences, FiniteSets, TLC

VARIABLES
    wsr_files,        \* main: the report files found, as read_excel reads them
    f,                \* main: index of the next file of wsr_files (from 1)
    supabase,         \* self.supabase is not None
    sheets_service,   \* self.sheets_service is not None
    account_mapping,  \* self.account_mapping: label -> [qbo_account, debit_credit]
    records,          \* the record list handed to the sinks (all_records)
    table,            \* services_wsr: the rows inserted so far, in insert order
    sheets,           \* the spreadsheet document: its tabs, leftmost first
    pc,               \* position of the single thread of control
    calls,            \* the sinks called so far: each is called once, in either order
    i,                \* upload_to_supabase: offset of the current batch
    total_uploaded,   \* upload_to_supabase: total_uploaded
    insert_ops,       \* insert operations issued by the running/last upload
    by_entity_week,   \* create_google_sheets_tabs: the dict, in insertion order
    g,                \* create_google_sheets_tabs: index of the current item
    tab_name,         \* create_sheet_tab: tab_name
    tab_records,      \* create_sheet_tab: records
    sheet_id,         \* create_sheet_tab: sheet_id (None is 0)
    data_rows,        \* create_sheet_tab: data_rows
    skipped_count,    \* create_sheet_tab: skipped_count
    tab_calls,        \* create_sheet_tab calls of the running/last export, each
                      \* with its outcome: "running", "written", or the remote
                      \* call that raised
    log,              \* logger output of the running/last sink call
    values,           \* load_account_mapping: the rows of Key!A:D as returned
    key_idx,          \* load_account_mapping: idx, the spreadsheet row of the loop
    key_mapping,      \* load_account_mapping: mapping, the dict being built
    total_stores,     \* bot run: total_stores of the week
    num_batches,      \* bot run: num_batches
    batch_num,        \* bot run: batch_num
    all_checkboxes,   \* select_store_batch: len(all_checkboxes)
    box,              \* select_store_batch: the checkbox index of the loop
    selected_count,   \* select_store_batch: selected_count
    selections,       \* the select_store_batch calls of the week, in order
    visited,          \* the checkbox indices the loops have come to, with their batch
    downloads         \* the batch numbers download_wsr_export was called with

vars == <<wsr_files, f, supabase, sheets_service, account_mapping, records, table, sheets,
          pc, calls, i, total_uploaded, insert_ops, by_entity_week, g,
          tab_name, tab_records, sheet_id, data_rows, skipped_count,
          tab_calls, log, values, key_idx, key_mapping, total_stores, num_batches, batch_num,
          all_checkboxes, box, selected_count, selections, visited, downloads>>

mainVars == <<wsr_files, f>>
uploadVars == <<i, total_uploaded, insert_ops>>
tabLocals == <<tab_name, tab_records, sheet_id, data_rows, skipped_count>>
tabsVars == <<by_entity_week, g, tabLocals, tab_calls>>
configVars == <<supabase, sheets_service, account_mapping, records>>
loadVars == <<values, key_idx, key_mapping>>
botVars == <<total_stores, num_batches, batch_num, all_checkboxes, box, selected_count,
             selections, visited, downloads>>

----------------------------------------------------------------------------
(* Bounds of the model *)

\* longest record list handed to both sinks
MaxRecords == 2
\* the bulk-upload lists have up to MaxBatches full batches and a remainder
MaxBatches == 2
\* most item rows of a report parsed alone
MaxItems == 2
\* most report files of a whole run
MaxFiles == 2
MaxKeyRows == 2
MaxStores == 31

(* Program constants *)

\* self.batch_size
batch_size == 1000

\* batch_size of JimmyJohnsWSRBot.run
store_batch_size == 15

----------------------------------------------------------------------------
(* Python primitives *)

Min(a, b) == IF a < b THEN a ELSE b

\* seq[lo:hi] for 0 <= lo
Slice(seq, lo, hi) == SubSeq(seq, lo + 1, Min(hi, Len(seq)))

\* str.lstrip(chars): drop every leading character that is in chars
RECURSIVE lstrip(_, _)
lstrip(s, chars) ==
    IF s # <<>> /\ Head(s) \in chars THEN lstrip(Tail(s), chars) ELSE s

\* str.split(sep) for a one-character sep: the list of parts
RECURSIVE split(_, _)
split(s, sep) ==
    IF \A k \in 1..Len(s) : s[k] # sep
    THEN <<s>>
    ELSE LET p == CHOOSE k \in 1..Len(s) :
                      s[k] = sep /\ \A j \in 1..(k - 1) : s[j] # sep
         IN  <<SubSeq(s, 1, p - 1)>> \o split(SubSeq(s, p + 1, Len(s)), sep)

UpperCase == <<"A", "B", "C", "D", "E", "F", "G", "H", "I", "J", "K", "L", "M",
               "N", "O", "P", "Q", "R", "S", "T", "U", "V", "W", "X", "Y", "Z">>
LowerCase == <<"a", "b", "c", "d", "e", "f", "g", "h", "i", "j", "k", "l", "m",
               "n", "o", "p", "q", "r", "s", "t", "u", "v", "w", "x", "y", "z">>

lowerChar(c) ==
    IF \E k \in 1..Len(UpperCase) : UpperCase[k] = c
    THEN LowerCase[CHOOSE k \in 1..Len(UpperCase) : UpperCase[k] = c]
    ELSE c

\* str.lower()
lower(s) == [k \in 1..Len(s) |-> lowerChar(s[k])]

Whitespace == {" ", "\t", "\n"}

RECURSIVE rstrip(_, _)
rstrip(s, chars) ==
    IF s # <<>> /\ s[Len(s)] \in chars
    THEN rstrip(SubSeq(s, 1, Len(s) - 1), chars)
    ELSE s

\* str.strip()
strip(s) == rstrip(lstrip(s, Whitespace), Whitespace)

Digits == <<"0", "1", "2", "3", "4", "5", "6", "7", "8", "9">>
IsDigits(s) == s # <<>> /\ \A k \in 1..Len(s) : \E d \in 1..10 : Digits[d] = s[k]
DigitValue(c) == (CHOOSE d \in 1..10 : Digits[d] = c) - 1

\* the number a string of decimal digits denotes
RECURSIVE IntOf(_)
IntOf(s) ==
    IF s = <<>> THEN 0
    ELSE IntOf(SubSeq(s, 1, Len(s) - 1)) * 10 + DigitValue(s[Len(s)])

\* str(n) of an int, as an f-string formats it
RECURSIVE Str(_)
Str(n) ==
    IF n < 0 THEN <<"-">> \o Str(0 - n)
    ELSE IF n < 10 THEN <<Digits[n + 1]>>
    ELSE Str(n \div 10) \o <<Digits[(n % 10) + 1]>>

\* n in decimal, zero-padded to width w
RECURSIVE Pad(_, _)
Pad(n, w) == IF Len(Str(n)) >= w THEN Str(n) ELSE <<"0">> \o Pad(n, w - 1)

\* float(text): <<>> when it raises ValueError, else <<the number>>.  The
\* floats of the model are whole numbers: the text is an optional sign, digits
\* and an optional fraction of zeros, with surrounding whitespace.
float(text) ==
    LET u == strip(text)
        signed == u # <<>> /\ Head(u) \in {"-", "+"}
        body == IF signed THEN Tail(u) ELSE u
        parts == split(body, ".")
        whole == IF signed /\ Head(u) = "-" THEN 0 - IntOf(parts[1]) ELSE IntOf(parts[1])
    IN  IF Len(parts) = 1 /\ IsDigits(parts[1]) THEN <<whole>>
        ELSE IF /\ Len(parts) = 2
                /\ IsDigits(parts[1])
                /\ \A k \in 1..Len(parts[2]) : parts[2][k] = "0"
             THEN <<whole>>
        ELSE <<>>

\* the date of three strings of digits: <<>> when they are not a date
DateOf(year, month, day) ==
    IF /\ IsDigits(year) /\ IsDigits(month) /\ IsDigits(day)
       /\ Len(year) = 4
       /\ IntOf(month) \in 1..12
       /\ IntOf(day) \in 1..31
    THEN <<[year |-> IntOf(year), month |-> IntOf(month), day |-> IntOf(day)]>>
    ELSE <<>>

\* pd.to_datetime(text): <<>> when it raises, else <<the Timestamp>>.  The
\* formats of the model are year-month-day, with or without a time of
\* midnight, and month/day/year.
to_datetime(text) ==
    LET words == split(text, " ")
        ymd == split(words[1], "-")
        mdy == split(text, "/")
    IN  IF Len(words) = 2 /\ words[2] # <<"0", "0", ":", "0", "0", ":", "0", "0">> THEN <<>>
        ELSE IF Len(words) > 2 THEN <<>>
        ELSE IF Len(ymd) = 3 THEN DateOf(ymd[1], ymd[2], ymd[3])
        ELSE IF Len(mdy) = 3 THEN DateOf(mdy[3], mdy[1], mdy[2])
        ELSE <<>>

\* Timestamp.strftime('%Y-%m-%d')
strftime(ts) == Pad(ts.year, 4) \o <<"-">> \o Pad(ts.month, 2) \o <<"-">> \o Pad(ts.day, 2)

----------------------------------------------------------------------------
(* The strings of the model *)

\* legal entities: "AE" and one whose name holds the separator, "A|E"
EntityAE == <<"A", "E">>
EntityBar == <<"A", "|", "E">>
Entities == {EntityAE, EntityBar}

\* week endings as strftime('%Y-%m-%d') formats them: no "|", no blank
WeekD1 == <<"d", "1">>
WeekD2 == <<"d", "2">>
Weeks == {WeekD1, WeekD2}

\* sales item labels
LabelX == <<"X">>
LabelMinusX == <<"-", " ", "X">>
LabelMinusMinusX == <<"-", " ", "-", " ", "X">>
LabelDashDashX == <<"-", "-", "X">>
LabelPlusY == <<"+", " ", "Y">>
LabelZ == <<"Z">>
Labels == {LabelX, LabelMinusX, LabelMinusMinusX, LabelDashDashX, LabelPlusY, LabelZ}

\* debit/credit flags as the Key tab spells them
FlagDebit == <<"D", "e", "b", "i", "t">>
FlagCredit == <<"C", "r", "e", "d", "i", "t">>
FlagCreditUpper == <<"C", "R", "E", "D", "I", "T">>
FlagOther == <<"N", "/", "A">>

Amounts == {0 - 2, 0, 3}

\* a record of parse_wsr_file
MkRecord(entity, week, item, amount) ==
    [legal_entity |-> entity,
     class_code   |-> entity \o <<"#">>,
     week_ending  |-> week,
     sales_item   |-> item,
     amount       |-> amount,
     description  |-> week \o <<" ", "W", "S", "R">>]

\* records of every (entity, week) pair, of every label, and of every sign
\* under a Debit and under a Credit entry
RecordPool ==
    {MkRecord(EntityAE, w, LabelX, 3) : w \in Weeks}
    \cup {MkRecord(e, WeekD1, LabelX, 3) : e \in Entities}
    \cup {MkRecord(EntityAE, WeekD1, l, 3) : l \in Labels}
    \cup {MkRecord(EntityAE, WeekD1, l, a) : l \in {LabelX, LabelPlusY}, a \in Amounts}

RECURSIVE SeqsUpTo(_, _)
SeqsUpTo(S, n) ==
    IF n = 0 THEN {<<>>}
    ELSE LET shorter == SeqsUpTo(S, n - 1)
         IN  shorter \cup {Append(q, x) : q \in {r \in shorter : Len(r) = n - 1}, x \in S}

RecordLists == SeqsUpTo(RecordPool, MaxRecords)

\* a long list for the bulk upload: record k carries amount k
BulkList(n) == [k \in 1..n |-> MkRecord(EntityAE, WeekD1, LabelX, k)]
BulkLengths ==
    {k * batch_size + d : k \in 0..MaxBatches, d \in {0, 1, 2, 500, batch_size - 1}}

\* account mappings as load_account_mapping returns them
MappingEmpty == <<>>
MappingA ==
    (LabelX :> [qbo_account |-> <<"q", "1">>, debit_credit |-> FlagDebit])
    @@ (LabelPlusY :> [qbo_account |-> <<"q", "2">>, debit_credit |-> FlagCredit])
MappingB ==
    (LabelX :> [qbo_account |-> <<"q", "1">>, debit_credit |-> FlagCreditUpper])
    @@ (LabelPlusY :> [qbo_account |-> <<"q", "2">>, debit_credit |-> FlagOther])
Mappings == {MappingEmpty, MappingA, MappingB}

\* the spreadsheet before the run: the Key tab and a tab of an earlier,
\* longer export of (AE, d1)
HeaderRow == <<"Account", "Amount", "Journal Date", "Description", "Name", "Class">>
StaleRow == <<<<"o", "l", "d">>, 7, WeekD1, <<>>, <<>>, <<>>>>
InitialSheets ==
    << [sheetId |-> 1, title |-> <<"K", "e", "y">>, values |-> <<>>, header_format |-> FALSE],
       [sheetId |-> 2, title |-> EntityAE \o <<" ">> \o WeekD1,
        values |-> <<HeaderRow, StaleRow, StaleRow, StaleRow>>, header_format |-> TRUE] >>

----------------------------------------------------------------------------
(* upload_to_supabase *)

\* a slice that loses the last record of every batch
BatchOffByOne(recs, off) == Slice(recs, off, off + batch_size - 1)

\* records[i:i + self.batch_size]
Batch(recs, off) == Slice(recs, off, off + batch_size)

\* the call: return at once when the client is not configured
UploadCall ==
    /\ pc = "idle"
    /\ "upload" \notin calls
    /\ calls' = calls \cup {"upload"}
    /\ i' = 0
    /\ total_uploaded' = 0
    /\ insert_ops' = <<>>
    /\ IF ~supabase
       THEN /\ pc' = "idle"
            /\ log' = "upload skipped"
       ELSE /\ pc' = "upload"
            /\ log' = "uploading"
    /\ UNCHANGED <<mainVars, configVars, loadVars, botVars, table, sheets, tabsVars>>

\* one iteration of the loop whose insert returns
UploadInsert ==
    /\ pc = "upload"
    /\ i < Len(records)
    /\ LET batch == Batch(records, i)
       IN  /\ table' = table \o batch
           /\ insert_ops' = Append(insert_ops, [batch |-> batch, ok |-> TRUE])
           /\ total_uploaded' = total_uploaded + Len(batch)
    /\ i' = i + batch_size
    /\ UNCHANGED <<mainVars, configVars, loadVars, botVars, sheets, pc, calls, tabsVars, log>>

\* an insert that raises out of the method and out of main
UploadInsertFailsPropagates ==
    /\ pc = "upload"
    /\ i < Len(records)
    /\ insert_ops' = Append(insert_ops, [batch |-> Batch(records, i), ok |-> FALSE])
    /\ pc' = "main_done"
    /\ log' = "upload failed"
    /\ UNCHANGED <<mainVars, configVars, loadVars, botVars, table, sheets, calls, i, total_uploaded, tabsVars>>

\* one iteration of the loop whose insert raises: the except clause of the
\* method logs and the method returns
UploadInsertFails ==
    /\ pc = "upload"
    /\ i < Len(records)
    /\ insert_ops' = Append(insert_ops, [batch |-> Batch(records, i), ok |-> FALSE])
    /\ pc' = "idle"
    /\ log' = "upload failed"
    /\ UNCHANGED <<mainVars, configVars, loadVars, botVars, table, sheets, calls, i, total_uploaded, tabsVars>>

\* range(0, len(records), batch_size) is exhausted
UploadReturn ==
    /\ pc = "upload"
    /\ i >= Len(records)
    /\ pc' = "idle"
    /\ log' = "upload ok"
    /\ UNCHANGED <<mainVars, configVars, loadVars, botVars, table, sheets, calls, uploadVars, tabsVars>>

upload_to_supabase == UploadCall \/ UploadInsert \/ UploadInsertFails \/ UploadReturn

----------------------------------------------------------------------------
(* create_google_sheets_tabs: grouping *)

\* a key of the legal entity alone
GroupKeyEntityOnly(record) == record.legal_entity \o <<"|">>

\* key = f"{entity}|{week}"
GroupKey(record) == record.legal_entity \o <<"|">> \o record.week_ending

\* the dict by_entity_week after the grouping loop, as the list of its items
\* in insertion order
RECURSIVE GroupInto(_, _)
GroupInto(dict, recs) ==
    IF recs = <<>> THEN dict
    ELSE LET record == Head(recs)
             key == GroupKey(record)
             at == {k \in 1..Len(dict) : dict[k].key = key}
         IN  IF at = {}
             THEN GroupInto(Append(dict, [key |-> key, records |-> <<record>>]), Tail(recs))
             ELSE GroupInto([k \in 1..Len(dict) |->
                                IF k \in at
                                THEN [dict[k] EXCEPT !.records = Append(@, record)]
                                ELSE dict[k]],
                            Tail(recs))

GroupRecords(recs) == GroupInto(<<>>, recs)

\* tab_name = f"{entity} {week}" of entity, week = key.split('|')
TabName(parts) == parts[1] \o <<" ">> \o parts[2]

----------------------------------------------------------------------------
(* create_sheet_tab: account resolution, sign adjustment, rows *)

\* sales_item.lstrip('- ').lstrip('+ ').lstrip('= ')
StrippedItem(sales_item) ==
    lstrip(lstrip(lstrip(sales_item, {"-", " "}), {"+", " "}), {"=", " "})

\* mapping_info: <<>> is None, <<entry>> is the entry found
MappingInfo(mapping, sales_item) ==
    IF sales_item \in DOMAIN mapping
    THEN <<mapping[sales_item]>>
    ELSE IF StrippedItem(sales_item) \in DOMAIN mapping
         THEN <<mapping[StrippedItem(sales_item)]>>
         ELSE <<>>

\* the flag compared as spelled, without lower()
AdjustedAmountCaseSensitive(amount, debit_credit) ==
    IF debit_credit = <<"D", "e", "b", "i", "t">> /\ amount > 0
    THEN 0 - amount
    ELSE IF debit_credit = <<"C", "r", "e", "d", "i", "t">> /\ amount < 0
         THEN 0 - amount
         ELSE amount

\* the sign flipped whatever it is
AdjustedAmountAlwaysFlips(amount, debit_credit) ==
    IF lower(debit_credit) \in {<<"d", "e", "b", "i", "t">>, <<"c", "r", "e", "d", "i", "t">>}
    THEN 0 - amount
    ELSE amount

\* adjusted_amount
AdjustedAmount(amount, debit_credit) ==
    IF lower(debit_credit) = <<"d", "e", "b", "i", "t">> /\ amount > 0
    THEN 0 - amount
    ELSE IF lower(debit_credit) = <<"c", "r", "e", "d", "i", "t">> /\ amount < 0
         THEN 0 - amount
         ELSE amount

\* the row with the description and the class in each other's column
DataRowSwapped(record, entry) ==
    << entry.qbo_account,
       AdjustedAmount(record.amount, entry.debit_credit),
       record.week_ending,
       record.class_code,
       <<>>,
       record.description >>

\* the row appended to data_rows for a record and its mapping entry
DataRow(record, entry) ==
    << entry.qbo_account,
       AdjustedAmount(record.amount, entry.debit_credit),
       record.week_ending,
       record.description,
       <<>>,
       record.class_code >>

\* an unmapped record written under its own label instead of skipped
RECURSIVE TabRowsKeepUnmapped(_, _, _)
TabRowsKeepUnmapped(mapping, recs, acc) ==
    IF recs = <<>> THEN acc
    ELSE LET record == Head(recs)
             mapping_info == MappingInfo(mapping, record.sales_item)
             entry == IF mapping_info = <<>>
                      THEN [qbo_account |-> record.sales_item,
                            debit_credit |-> <<"D", "e", "b", "i", "t">>]
                      ELSE mapping_info[1]
         IN  TabRowsKeepUnmapped(mapping, Tail(recs),
                 [acc EXCEPT !.data_rows = Append(@, DataRow(record, entry))])

\* data_rows and skipped_count after the loop over the records of the tab
RECURSIVE TabRows(_, _, _)
TabRows(mapping, recs, acc) ==
    IF recs = <<>> THEN acc
    ELSE LET record == Head(recs)
             mapping_info == MappingInfo(mapping, record.sales_item)
         IN  IF mapping_info = <<>>
             THEN TabRows(mapping, Tail(recs),
                          [acc EXCEPT !.skipped_count = @ + 1])
             ELSE TabRows(mapping, Tail(recs),
                          [acc EXCEPT !.data_rows =
                               Append(@, DataRow(record, mapping_info[1]))])

----------------------------------------------------------------------------
(* The spreadsheet service *)

\* sheetId of the tab titled name, 0 when there is none
SheetIdOf(doc, name) ==
    IF \E k \in 1..Len(doc) : doc[k].title = name
    THEN doc[CHOOSE k \in 1..Len(doc) :
                 doc[k].title = name /\ \A j \in 1..(k - 1) : doc[j].title # name].sheetId
    ELSE 0

NewSheetId(doc) ==
    1 + (CHOOSE m \in {0} \cup {doc[k].sheetId : k \in 1..Len(doc)} :
             \A k \in 1..Len(doc) : doc[k].sheetId <= m)

\* addSheet without an index: the new tab goes last
AddSheetAtEnd(doc, name) ==
    doc \o <<[sheetId |-> NewSheetId(doc), title |-> name, values |-> <<>>,
              header_format |-> FALSE]>>

\* addSheet with index 0
AddSheet(doc, name) ==
    <<[sheetId |-> NewSheetId(doc), title |-> name, values |-> <<>>,
       header_format |-> FALSE]>> \o doc

\* updateCells over the whole sheet with fields userEnteredValue and no rows
ClearSheet(doc, id) ==
    [k \in 1..Len(doc) |->
        IF doc[k].sheetId = id THEN [doc[k] EXCEPT !.values = <<>>] ELSE doc[k]]

\* values().update at A1: the rows given overwrite the rows they cover
UpdateValues(doc, name, rows) ==
    [k \in 1..Len(doc) |->
        IF doc[k].title = name
        THEN [doc[k] EXCEPT !.values = rows \o SubSeq(@, Len(rows) + 1, Len(@))]
        ELSE doc[k]]

\* repeatCell over row 0 with the header format
FormatHeader(doc, id) ==
    [k \in 1..Len(doc) |->
        IF doc[k].sheetId = id THEN [doc[k] EXCEPT !.header_format = TRUE] ELSE doc[k]]

----------------------------------------------------------------------------
(* create_google_sheets_tabs and create_sheet_tab: the steps *)

\* the call: return at once when the service is not configured, else group
TabsCall ==
    /\ pc = "idle"
    /\ "tabs" \notin calls
    /\ calls' = calls \cup {"tabs"}
    /\ tab_calls' = <<>>
    /\ g' = 1
    /\ IF ~sheets_service
       THEN /\ pc' = "idle"
            /\ log' = "tabs skipped"
            /\ by_entity_week' = <<>>
       ELSE /\ pc' = "tabs"
            /\ log' = "creating tabs"
            /\ by_entity_week' = GroupRecords(records)
    /\ UNCHANGED <<mainVars, configVars, loadVars, botVars, table, sheets, uploadVars, tabLocals>>

\* the call of a later run of the program over the same spreadsheet
TabsCallAgain ==
    /\ pc = "idle"
    /\ "tabs" \in calls
    /\ "tabs again" \notin calls
    /\ calls' = calls \cup {"tabs again"}
    /\ tab_calls' = <<>>
    /\ g' = 1
    /\ IF ~sheets_service
       THEN /\ pc' = "idle"
            /\ log' = "tabs skipped"
            /\ by_entity_week' = <<>>
       ELSE /\ pc' = "tabs"
            /\ log' = "creating tabs"
            /\ by_entity_week' = GroupRecords(records)
    /\ UNCHANGED <<mainVars, configVars, loadVars, botVars, table, sheets, uploadVars, tabLocals>>

\* the next item of by_entity_week.items() whose key splits in two:
\* create_sheet_tab is called
TabsNextItem ==
    /\ pc = "tabs"
    /\ g <= Len(by_entity_week)
    /\ LET parts == split(by_entity_week[g].key, "|")
       IN  /\ Len(parts) = 2
           /\ tab_name' = TabName(parts)
           /\ tab_records' = by_entity_week[g].records
           /\ tab_calls' = Append(tab_calls, [tab_name |-> TabName(parts),
                                              records |-> by_entity_week[g].records,
                                              outcome |-> "running"])
    /\ sheet_id' = 0
    /\ data_rows' = <<>>
    /\ skipped_count' = 0
    /\ pc' = "tab_get"
    /\ UNCHANGED <<mainVars, configVars, loadVars, botVars, table, sheets, calls, uploadVars, by_entity_week, g, log>>

\* the next item whose key does not split in two: the unpacking raises
\* ValueError, the except clause of create_google_sheets_tabs logs and the
\* method returns
TabsUnpackRaises ==
    /\ pc = "tabs"
    /\ g <= Len(by_entity_week)
    /\ Len(split(by_entity_week[g].key, "|")) # 2
    /\ pc' = "idle"
    /\ log' = "tabs failed"
    /\ UNCHANGED <<mainVars, configVars, loadVars, botVars, table, sheets, calls, uploadVars, tabsVars>>

\* by_entity_week.items() is exhausted
TabsReturn ==
    /\ pc = "tabs"
    /\ g > Len(by_entity_week)
    /\ pc' = "idle"
    /\ log' = "tabs ok"
    /\ UNCHANGED <<mainVars, configVars, loadVars, botVars, table, sheets, calls, uploadVars, tabsVars>>

\* spreadsheets().get returns: look the tab up by title
TabGet ==
    /\ pc = "tab_get"
    /\ sheet_id' = SheetIdOf(sheets, tab_name)
    /\ pc' = "tab_add_or_clear"
    /\ UNCHANGED <<mainVars, configVars, loadVars, botVars, table, sheets, calls, uploadVars, by_entity_week, g,
                   tab_name, tab_records, data_rows, skipped_count, tab_calls, log>>

\* batchUpdate returns: addSheet when the tab is new
TabAdd ==
    /\ pc = "tab_add_or_clear"
    /\ sheet_id = 0
    /\ sheet_id' = NewSheetId(sheets)
    /\ sheets' = AddSheet(sheets, tab_name)
    /\ pc' = "tab_update"
    /\ UNCHANGED <<mainVars, configVars, loadVars, botVars, table, calls, uploadVars, by_entity_week, g,
                   tab_name, tab_records, data_rows, skipped_count, tab_calls, log>>

\* an existing tab that is not cleared before it is written
TabClearNothing ==
    /\ pc = "tab_add_or_clear"
    /\ sheet_id # 0
    /\ pc' = "tab_update"
    /\ UNCHANGED <<mainVars, configVars, loadVars, botVars, table, sheets, calls, uploadVars, by_entity_week, g,
                   tabLocals, tab_calls, log>>

\* batchUpdate returns: clear when the tab exists
TabClear ==
    /\ pc = "tab_add_or_clear"
    /\ sheet_id # 0
    /\ sheets' = ClearSheet(sheets, sheet_id)
    /\ pc' = "tab_update"
    /\ UNCHANGED <<mainVars, configVars, loadVars, botVars, table, calls, uploadVars, by_entity_week, g,
                   tabLocals, tab_calls, log>>

\* a tab write that stores the mapped account and the adjusted amount in
\* the records themselves
TabUpdateInPlace ==
    /\ pc = "tab_update"
    /\ LET built == TabRows(account_mapping, tab_records,
                            [data_rows |-> <<>>, skipped_count |-> 0])
       IN  /\ data_rows' = built.data_rows
           /\ skipped_count' = built.skipped_count
           /\ sheets' = UpdateValues(sheets, tab_name, <<HeaderRow>> \o built.data_rows)
    /\ records' = [k \in 1..Len(records) |->
           LET mapping_info == MappingInfo(account_mapping, records[k].sales_item)
           IN  IF mapping_info = <<>> THEN records[k]
               ELSE [records[k] EXCEPT
                        !.sales_item = mapping_info[1].qbo_account,
                        !.amount = AdjustedAmount(@, mapping_info[1].debit_credit)]]
    /\ pc' = "tab_format"
    /\ UNCHANGED <<mainVars, loadVars, botVars, supabase, sheets_service, account_mapping, table, calls,
                   uploadVars,
                   by_entity_week, g, tab_name, tab_records, sheet_id, tab_calls, log>>

\* a value write that is left out when no record of the group resolves
TabUpdateSkipsEmptyGroup ==
    /\ pc = "tab_update"
    /\ LET built == TabRows(account_mapping, tab_records,
                            [data_rows |-> <<>>, skipped_count |-> 0])
       IN  /\ data_rows' = built.data_rows
           /\ skipped_count' = built.skipped_count
           /\ sheets' = IF built.data_rows = <<>> THEN sheets
                        ELSE UpdateValues(sheets, tab_name, <<HeaderRow>> \o built.data_rows)
    /\ pc' = "tab_format"
    /\ UNCHANGED <<mainVars, configVars, loadVars, botVars, table, calls, uploadVars, by_entity_week, g,
                   tab_name, tab_records, sheet_id, tab_calls, log>>

\* the rows are built and values().update returns
TabUpdate ==
    /\ pc = "tab_update"
    /\ LET built == TabRows(account_mapping, tab_records,
                            [data_rows |-> <<>>, skipped_count |-> 0])
       IN  /\ data_rows' = built.data_rows
           /\ skipped_count' = built.skipped_count
           /\ sheets' = UpdateValues(sheets, tab_name, <<HeaderRow>> \o built.data_rows)
    /\ pc' = "tab_format"
    /\ UNCHANGED <<mainVars, configVars, loadVars, botVars, table, calls, uploadVars, by_entity_week, g,
                   tab_name, tab_records, sheet_id, tab_calls, log>>

\* the format batchUpdate returns and create_sheet_tab with it
TabFormat ==
    /\ pc = "tab_format"
    /\ sheets' = FormatHeader(sheets, sheet_id)
    /\ pc' = "tabs"
    /\ g' = g + 1
    /\ log' = "tab written"
    /\ tab_calls' = [tab_calls EXCEPT ![Len(tab_calls)].outcome = "written"]
    /\ UNCHANGED <<mainVars, configVars, loadVars, botVars, table, calls, uploadVars, by_entity_week, tabLocals>>

\* a raise that leaves the export, as the except clause of the caller would
TabRemoteCallAborts ==
    /\ pc \in {"tab_get", "tab_add_or_clear", "tab_update", "tab_format"}
    /\ pc' = "idle"
    /\ log' = "tab failed"
    /\ tab_calls' = [tab_calls EXCEPT ![Len(tab_calls)].outcome = pc]
    /\ UNCHANGED <<mainVars, configVars, loadVars, botVars, table, sheets, calls, uploadVars, by_entity_week, g,
                   tabLocals>>

\* a raise that is logged where it happens, the later steps of the tab
\* being taken all the same
TabRemoteCallRaisesAndGoesOn ==
    /\ pc \in {"tab_get", "tab_add_or_clear", "tab_update", "tab_format"}
    /\ pc' = (CASE pc = "tab_get" -> "tab_add_or_clear"
                [] pc = "tab_add_or_clear" -> "tab_update"
                [] pc = "tab_update" -> "tab_format"
                [] pc = "tab_format" -> "tabs")
    /\ g' = IF pc = "tab_format" THEN g + 1 ELSE g
    /\ log' = "tab failed"
    /\ tab_calls' = [tab_calls EXCEPT ![Len(tab_calls)].outcome = pc]
    /\ UNCHANGED <<mainVars, configVars, loadVars, botVars, table, sheets, calls, uploadVars, by_entity_week,
                   tabLocals>>

\* a remote call of create_sheet_tab raises: its except clause logs and the
\* method returns to the loop of create_google_sheets_tabs
TabRemoteCallRaises ==
    /\ pc \in {"tab_get", "tab_add_or_clear", "tab_update", "tab_format"}
    /\ pc' = "tabs"
    /\ g' = g + 1
    /\ log' = "tab failed"
    /\ tab_calls' = [tab_calls EXCEPT ![Len(tab_calls)].outcome = pc]
    /\ UNCHANGED <<mainVars, configVars, loadVars, botVars, table, sheets, calls, uploadVars, by_entity_week,
                   tabLocals>>

create_sheet_tab == TabGet \/ TabAdd \/ TabClear \/ TabUpdate \/ TabFormat \/ TabRemoteCallRaises

create_google_sheets_tabs == TabsCall \/ TabsNextItem \/ TabsUnpackRaises \/ TabsReturn

----------------------------------------------------------------------------
(* parse_wsr_file *)

\* A cell of the DataFrame: kind is the Python type of its value, text is
\* str() of the value and num the value of a number.  A missing cell is nan.
NaN == [kind |-> "nan", text |-> <<"n", "a", "n">>, num |-> 0]
Text(t) == [kind |-> "str", text |-> t, num |-> 0]
Float(n) == [kind |-> "float", text |-> Str(n) \o <<".", "0">>, num |-> n]
Int_(n) == [kind |-> "int", text |-> Str(n), num |-> n]
Timestamp(y, m, d) ==
    [kind |-> "Timestamp",
     text |-> strftime([year |-> y, month |-> m, day |-> d]) \o <<" ", "0", "0", ":", "0", "0", ":", "0", "0">>,
     num  |-> 0]

\* df.iloc[r, c], for a DataFrame that is the sequence of its rows
iloc(df, r, c) == df[r + 1][c + 1]

\* self.store_mapping (two of its stores)
store_mapping ==
    (2811 :> [legal_entity |-> <<"A", "t", "l", "a", "s", " ", "W", "e", "s", "t">>,
              class_code   |-> <<"2", "8", "1", "1", " ", "-", " ", "E", "d", "i", "n", "g", "e", "r">>,
              store_name   |-> <<"E", "d", "i", "n", "g", "e", "r">>])
    @@
    (2682 :> [legal_entity |-> <<"A", "t", "l", "a", "s", " ", "E", "a", "s", "t">>,
              class_code   |-> <<"2", "6", "8", "2", " ", "-", " ", "N", "o", "r", "t", "h", " ", "F", "a", "y", "a", "t", "t", "e">>,
              store_name   |-> <<"N", "o", "r", "t", "h", " ", "F", "a", "y", "e", "t", "t", "e">>])

\* week_ending after lines 291-301: None is the empty string
week_ending(df) ==
    IF Len(df) > 0
    THEN LET week_text == iloc(df, 0, 2).text
         IN  IF week_text # <<"n", "a", "n">> /\ to_datetime(week_text) # <<>>
             THEN strftime(to_datetime(week_text)[1])
             ELSE <<>>
    ELSE <<>>

\* store_number after lines 292-310: <<>> is None, <<n>> is the int n
store_number(df) ==
    IF Len(df) > 2
    THEN LET store_text == iloc(df, 2, 2).text
         IN  IF store_text # <<"n", "a", "n">> THEN float(store_text) ELSE <<>>
    ELSE <<>>

\* the test of line 312 without its first operand
MetadataMissingStoreOnly(week, store) ==
    store = <<>> \/ store[1] = 0

\* the test of line 312 with "is None" in the place of "not"
MetadataMissingNoneOnly(week, store) ==
    week = <<>> \/ store = <<>>

\* not week_ending or not store_number
MetadataMissing(week, store) ==
    week = <<>> \/ store = <<>> \/ store[1] = 0

\* the fallback of an unknown store without the store number in it
StoreInfoNoNumber(n) ==
    IF n \in DOMAIN store_mapping
    THEN store_mapping[n]
    ELSE [legal_entity |-> <<"U", "n", "k", "n", "o", "w", "n">>,
          class_code   |-> <<"U", "n", "k", "n", "o", "w", "n">>,
          store_name   |-> <<"S", "t", "o", "r", "e">>]

\* legal_entity, class_code and store_name after lines 320-329
StoreInfo(n) ==
    IF n \in DOMAIN store_mapping
    THEN store_mapping[n]
    ELSE [legal_entity |-> <<"U", "n", "k", "n", "o", "w", "n">>,
          class_code   |-> Str(n) \o <<" ", "-", " ", "U", "n", "k", "n", "o", "w", "n">>,
          store_name   |-> <<"S", "t", "o", "r", "e", " ">> \o Str(n)]

\* the search of the table header over every row of the sheet
RECURSIVE HeaderRowAnywhere(_, _)
HeaderRowAnywhere(df, idx) ==
    IF idx >= Len(df) THEN <<>>
    ELSE LET row_vals == {df[idx + 1][c].text : c \in 1..Len(df[idx + 1])}
         IN  IF <<"S", "a", "l", "e", "s", " ", "I", "t", "e", "m">> \in row_vals /\ <<"S", "u", "m", "m", "a", "r", "y">> \in row_vals
             THEN <<idx>>
             ELSE HeaderRowAnywhere(df, idx + 1)

\* header_row after the loop of lines 335-340, from idx on: <<>> is None
RECURSIVE header_row(_, _)
header_row(df, idx) ==
    IF idx >= Min(10, Len(df)) THEN <<>>
    ELSE LET row_vals == {df[idx + 1][c].text : c \in 1..Len(df[idx + 1])}
         IN  IF <<"S", "a", "l", "e", "s", " ", "I", "t", "e", "m">> \in row_vals /\ <<"S", "u", "m", "m", "a", "r", "y">> \in row_vals
             THEN <<idx>>
             ELSE header_row(df, idx + 1)

\* the labels of line 364 without the last
SkipMarkersTwo == {<<"T", "o", "t", "a", "l", " ", "o", "f", " ", "A", "b", "o", "v", "e">>, <<"-", " ", "O", "V", "E", "R", "-", "R", "I", "N", "G", "S">>}

\* the labels of line 364
SkipMarkers == {<<"T", "o", "t", "a", "l", " ", "o", "f", " ", "A", "b", "o", "v", "e">>, <<"-", " ", "O", "V", "E", "R", "-", "R", "I", "N", "G", "S">>, <<"=", " ", "A", "d", "j", "u", "s", "t", "e", "d", " ", "S", "a", "l", "e", "s">>}

\* amount after lines 368-371
Amount(summary) ==
    IF summary.kind = "nan" THEN 0
    ELSE IF summary.kind \in {"float", "int"} THEN summary.num
    ELSE IF summary.kind = "str" /\ float(summary.text) # <<>> THEN float(summary.text)[1]
    ELSE 0

\* the record of lines 374-384 (created_at, the time of parsing, is left out)
Record(n, week, sales_item_str, amount) ==
    [store_number |-> n,
     store_name   |-> StoreInfo(n).store_name,
     legal_entity |-> StoreInfo(n).legal_entity,
     class_code   |-> StoreInfo(n).class_code,
     week_ending  |-> week,
     sales_item   |-> sales_item_str,
     amount       |-> amount,
     description  |-> week \o <<" ", "W", "S", "R", " ", "E", "n", "t", "r", "y">>]

\* the loop of lines 350-386 with each record put before the earlier ones
RECURSIVE DataRecordsReversed(_, _, _, _)
DataRecordsReversed(df, idx, n, week) ==
    IF idx >= Len(df) THEN <<>>
    ELSE LET sales_item == iloc(df, idx, 0)
             rest == DataRecordsReversed(df, idx + 1, n, week)
         IN  IF \/ sales_item.kind = "nan"
                \/ strip(sales_item.text) = <<>>
                \/ strip(sales_item.text) \in SkipMarkers
             THEN rest
             ELSE rest \o <<Record(n, week, strip(sales_item.text),
                                   Amount(iloc(df, idx, 1)))>>

\* the loop of lines 350-386 with a row dropped when float(summary) raises
RECURSIVE DataRecordsDropBadAmount(_, _, _, _)
DataRecordsDropBadAmount(df, idx, n, week) ==
    IF idx >= Len(df) THEN <<>>
    ELSE LET sales_item == iloc(df, idx, 0)
             summary == iloc(df, idx, 1)
             rest == DataRecordsDropBadAmount(df, idx + 1, n, week)
         IN  IF \/ sales_item.kind = "nan"
                \/ strip(sales_item.text) = <<>>
                \/ strip(sales_item.text) \in SkipMarkers
                \/ summary.kind = "str" /\ float(summary.text) = <<>>
             THEN rest
             ELSE <<Record(n, week, strip(sales_item.text), Amount(summary))>> \o rest

\* records after the loop of lines 350-386, from idx on
RECURSIVE DataRecords(_, _, _, _)
DataRecords(df, idx, n, week) ==
    IF idx >= Len(df) THEN <<>>
    ELSE LET sales_item == iloc(df, idx, 0)
             summary == iloc(df, idx, 1)
             sales_item_str == strip(sales_item.text)
             rest == DataRecords(df, idx + 1, n, week)
         IN  IF \/ sales_item.kind = "nan"
                \/ strip(sales_item.text) = <<>>
                \/ sales_item.text = <<"n", "a", "n">>
             THEN rest
             ELSE IF sales_item_str \in SkipMarkers
             THEN rest
             ELSE <<Record(n, week, sales_item_str, Amount(summary))>> \o rest

\* an exception inside the try of lines 286-389: read_excel raises, or the
\* sheet has fewer than three columns and iloc raises IndexError
ParseRaises(file) ==
    \/ ~file.readable
    \/ Len(file.df) > 0 /\ Len(file.df[1]) < 3

\* parse_wsr_file with the rows taken from the row under the table header
ParseFromRowUnderHeader(file) ==
    LET df == file.df IN
    IF ParseRaises(file) THEN <<>>
    ELSE IF MetadataMissing(week_ending(df), store_number(df)) THEN <<>>
    ELSE IF header_row(df, 0) = <<>> THEN <<>>
    ELSE DataRecords(df, header_row(df, 0)[1] + 1, store_number(df)[1], week_ending(df))

\* parse_wsr_file: the list it returns
parse_wsr_file(file) ==
    LET df == file.df IN
    IF ParseRaises(file) THEN <<>>
    ELSE IF MetadataMissing(week_ending(df), store_number(df)) THEN <<>>
    ELSE IF header_row(df, 0) = <<>> THEN <<>>
    ELSE DataRecords(df, header_row(df, 0)[1] + 3, store_number(df)[1], week_ending(df))

----------------------------------------------------------------------------
(* The report files of the model *)

\* the cells of row 0, column 2
WeekCells == {Timestamp(2024, 1, 7), Text(<<"0", "1", "/", "1", "4", "/", "2", "0", "2", "4">>), Text(<<"W", "e", "e", "k", " ", "2">>), NaN}

\* the cells of row 2, column 2
StoreCells == {Float(2811), Text(<<"2", "6", "8", "2">>), Int_(9999), Float(0), Text(<<"T", "B", "D">>), NaN}

BlankRow == <<NaN, NaN, NaN>>
HeaderBoth == <<Text(<<"S", "a", "l", "e", "s", " ", "I", "t", "e", "m">>), Text(<<"S", "u", "m", "m", "a", "r", "y">>), NaN>>
HeaderOne == <<Text(<<"S", "a", "l", "e", "s", " ", "I", "t", "e", "m">>), NaN, NaN>>
\* one of the two date/time rows under the table header
TimeRow == <<Text(<<"D", "a", "t", "e">>), Float(1), NaN>>

\* where the table header is and what it holds
HeaderPlaces ==
    {<<3, HeaderBoth>>, <<5, HeaderBoth>>, <<9, HeaderBoth>>, <<10, HeaderBoth>>,
     <<3, HeaderOne>>}

ItemX == <<Text(<<"X">>), Float(3), NaN>>
ItemPlusY == <<Text(<<" ", "+", " ", "Y", " ">>), Float(0 - 2), NaN>>
ItemZText == <<Text(<<"Z">>), Text(<<"T", "B", "D">>), NaN>>
ItemZNaN == <<Text(<<"Z">>), NaN, NaN>>
ItemNaN == <<NaN, Float(3), NaN>>
ItemSpaces == <<Text(<<" ", " ">>), Float(3), NaN>>
ItemTotal == <<Text(<<"T", "o", "t", "a", "l", " ", "o", "f", " ", "A", "b", "o", "v", "e">>), Float(3), NaN>>
ItemOverRings == <<Text(<<"-", " ", "O", "V", "E", "R", "-", "R", "I", "N", "G", "S", " ">>), Float(3), NaN>>
ItemAdjusted == <<Text(<<"=", " ", "A", "d", "j", "u", "s", "t", "e", "d", " ", "S", "a", "l", "e", "s">>), Float(3), NaN>>
ItemTotalLower == <<Text(<<"t", "o", "t", "a", "l", " ", "o", "f", " ", "a", "b", "o", "v", "e">>), Float(3), NaN>>
\* a second row that holds both names of the table header
ItemHeader == HeaderBoth
ItemRows == {ItemX, ItemPlusY, ItemZText, ItemZNaN, ItemNaN, ItemSpaces,
             ItemTotal, ItemOverRings, ItemAdjusted, ItemTotalLower, ItemHeader}

\* the sheet 'Weekly Sales' as read_excel reads it: the week in row 0, the
\* store in row 2, the table header in row h, two date/time rows, the items
File(week_cell, store_cell, h, header, items) ==
    [readable |-> TRUE,
     df |-> [k \in 1..(h + 3 + Len(items)) |->
                 IF k - 1 = 0 THEN <<NaN, NaN, week_cell>>
                 ELSE IF k - 1 = 2 THEN <<NaN, NaN, store_cell>>
                 ELSE IF k - 1 = h THEN header
                 ELSE IF k - 1 \in {h + 1, h + 2} THEN TimeRow
                 ELSE IF k - 1 > h + 2 THEN items[k - 1 - (h + 2)]
                 ELSE BlankRow]]

\* a file read_excel raises on, an empty sheet, a sheet of one row and a
\* sheet of two columns
FileUnreadable == [readable |-> FALSE, df |-> <<>>]
FileEmpty == [readable |-> TRUE, df |-> <<>>]
FileOneRow == [readable |-> TRUE, df |-> <<<<NaN, NaN, Timestamp(2024, 1, 7)>>>>]
FileNarrow ==
    [readable |-> TRUE,
     df |-> <<<<NaN, Timestamp(2024, 1, 7)>>, <<NaN, NaN>>, <<NaN, Float(2811)>>,
              <<Text(<<"S", "a", "l", "e", "s", " ", "I", "t", "e", "m">>), Text(<<"S", "u", "m", "m", "a", "r", "y">>)>>, <<NaN, NaN>>, <<NaN, NaN>>,
              <<Text(<<"X">>), Float(3)>>>>]

\* the files parsed one at a time
ParseFiles ==
    {File(w, s, hp[1], hp[2], items) :
         w \in WeekCells, s \in StoreCells, hp \in HeaderPlaces,
         items \in SeqsUpTo(ItemRows, MaxItems)}
    \cup {FileUnreadable, FileEmpty, FileOneRow, FileNarrow}

\* the files of a whole run
FileWest == File(Timestamp(2024, 1, 7), Float(2811), 3, HeaderBoth, <<ItemX, ItemTotal, ItemPlusY>>)
FileUnknown == File(Text(<<"0", "1", "/", "1", "4", "/", "2", "0", "2", "4">>), Int_(9999), 3, HeaderBoth, <<ItemX>>)
FileBadWeek == File(NaN, Float(2811), 3, HeaderBoth, <<ItemX>>)
FileNoHeader == File(Timestamp(2024, 1, 7), Float(2811), 10, HeaderBoth, <<ItemX>>)
RunFiles == {FileWest, FileUnknown, FileBadWeek, FileNoHeader, FileUnreadable}
RunFileLists == SeqsUpTo(RunFiles, MaxFiles) \ {<<>>}

\* the spreadsheet before a whole run: it holds a tab of an earlier export
RunSheets ==
    << [sheetId |-> 1, title |-> <<"K", "e", "y">>, values |-> <<>>, header_format |-> FALSE],
       [sheetId |-> 2, title |-> <<"A", "t", "l", "a", "s", " ", "W", "e", "s", "t", " ", "2", "0", "2", "4", "-", "0", "1", "-", "0", "7">>,
        values |-> <<HeaderRow, StaleRow, StaleRow, StaleRow, StaleRow, StaleRow>>,
        header_format |-> TRUE] >>

----------------------------------------------------------------------------
(* main: the file loop and the calls of the sinks *)

\* an iteration of the loop of lines 671-676 that returns from main at a file
\* without records
MainParseFileStopsAtRejected ==
    /\ pc = "main"
    /\ f <= Len(wsr_files)
    /\ records' = records \o parse_wsr_file(wsr_files[f])
    /\ f' = f + 1
    /\ pc' = IF parse_wsr_file(wsr_files[f]) = <<>> THEN "main_done" ELSE pc
    /\ UNCHANGED <<wsr_files, loadVars, botVars, supabase, sheets_service, account_mapping, table, sheets,
                   calls, uploadVars, tabsVars, log>>

\* an iteration of the loop of lines 671-676
MainParseFile ==
    /\ pc = "main"
    /\ f <= Len(wsr_files)
    /\ LET parsed == parse_wsr_file(wsr_files[f])
       IN  records' = IF parsed # <<>> THEN records \o parsed ELSE records
    /\ f' = f + 1
    /\ UNCHANGED <<wsr_files, loadVars, botVars, supabase, sheets_service, account_mapping, table, sheets,
                   pc, calls, uploadVars, tabsVars, log>>

\* the end of the file loop without the test of line 678
MainAfterFilesNoTest ==
    /\ pc = "main"
    /\ f > Len(wsr_files)
    /\ pc' = "idle"
    /\ log' = "processing complete"
    /\ UNCHANGED <<mainVars, configVars, loadVars, botVars, table, sheets, calls, uploadVars, tabsVars>>

\* the end of the file loop: main returns when all_records is empty
MainAfterFiles ==
    /\ pc = "main"
    /\ f > Len(wsr_files)
    /\ IF records = <<>>
       THEN /\ pc' = "main_done"
            /\ log' = "no records"
       ELSE /\ pc' = "idle"
            /\ log' = "processing complete"
    /\ UNCHANGED <<mainVars, configVars, loadVars, botVars, table, sheets, calls, uploadVars, tabsVars>>

\* line 697: create_google_sheets_tabs is called after upload_to_supabase
\* has returned
MainCallsTabs ==
    /\ "upload" \in calls
    /\ TabsCall

----------------------------------------------------------------------------
(* load_account_mapping *)

\* the rows of the Key tab as values().get returns them: strings, a row
\* ending at its last cell that is not empty
KeyTitle == <<"K", "e", "y">>
KeyHeader == <<<<"W", "S", "R">>, <<"Q", "B", "O">>, <<"N", "a", "m", "e">>, <<"D", "/", "C">>>>
KeyRows ==
    { <<<<"X">>, <<"q", "1">>>>,
      <<<<"X">>, <<"q", "1">>, <<>>, <<"C", "r", "e", "d", "i", "t">>>>,
      <<<<"X">>, <<"q", "1">>, <<"c", "r", "e", "d", "i", "t">>>>,
      <<<<"X">>, <<"q", "1">>, <<"N", "a", "m", "e">>, <<"C", "R", "E", "D", "I", "T">>>>,
      <<<<"X">>, <<"q", "1">>, <<"N", "a", "m", "e">>>>,
      <<<<"+", " ", "Y">>, <<"q", "2">>, <<"C", "r", "e", "d", "i", "t">>, <<"N", "/", "A">>>>,
      <<<<" ", "X", " ">>, <<"q", "1", " ">>, <<>>, <<" ", "C", "r", "e", "d", "i", "t", " ">>>>,
      <<<<"X">>, <<"q", "3">>, <<" ", "C", "r", "e", "d", "i", "t", " ">>>>,
      <<<<"+", " ", "Y">>, <<"q", "2">>, <<"c", "r", "e", "d", "i", "t">>, <<" ">>>>,
      <<<<" ", " ">>, <<"q", "1">>, <<>>, <<"C", "r", "e", "d", "i", "t">>>>,
      <<<<>>, <<"q", "1">>, <<>>, <<"C", "r", "e", "d", "i", "t">>>>,
      <<<<"Z">>, <<" ">>>>,
      <<<<"Z">>, <<>>, <<>>, <<"D", "e", "b", "i", "t">>>>,
      <<<<"Z">>>>,
      <<>> }

\* result.get('values', []) of the range Key!A:D
KeyRange(doc) == doc[CHOOSE k \in 1..Len(doc) : doc[k].title = KeyTitle].values

\* mapping[wsr_name] = {...}
DictPut(m, key, entry) ==
    [k \in (DOMAIN m) \cup {key} |-> IF k = key THEN entry ELSE m[k]]

\* column C looked at before column D
DebitCreditColumnCFirst(row) ==
    IF Len(row) > 2 /\ row[3] # <<>> /\ lower(strip(row[3])) \in {<<"d", "e", "b", "i", "t">>, <<"c", "r", "e", "d", "i", "t">>}
    THEN strip(row[3])
    ELSE IF Len(row) > 3 /\ row[4] # <<>>
         THEN strip(row[4])
         ELSE FlagDebit

\* debit_credit of a row, lines 121-131
DebitCredit(row) ==
    IF Len(row) > 3 /\ row[4] # <<>>
    THEN strip(row[4])
    ELSE IF Len(row) > 2 /\ row[3] # <<>>
         THEN LET val == strip(row[3])
              IN  IF lower(val) \in {<<"d", "e", "b", "i", "t">>, <<"c", "r", "e", "d", "i", "t">>} THEN val ELSE FlagDebit
         ELSE FlagDebit

\* the body of the loop over values[1:], lines 111-137
LoadRow(m, row) ==
    IF Len(row) >= 2
    THEN LET wsr_name == IF row[1] # <<>> THEN strip(row[1]) ELSE <<>>
             qbo_name == IF row[2] # <<>> THEN strip(row[2]) ELSE <<>>
         IN  IF wsr_name # <<>> /\ qbo_name # <<>>
             THEN DictPut(m, wsr_name,
                          [qbo_account |-> qbo_name, debit_credit |-> DebitCredit(row)])
             ELSE m
    ELSE m

\* the call: {} without a service (86-88) or without rows (101-103)
LoadCall ==
    /\ pc = "load"
    /\ IF ~sheets_service
       THEN /\ account_mapping' = MappingEmpty
            /\ pc' = "loaded"
            /\ log' = "not configured"
            /\ UNCHANGED loadVars
       ELSE /\ \E k \in 1..Len(sheets) : sheets[k].title = KeyTitle
            /\ values' = KeyRange(sheets)
            /\ IF values' = <<>>
               THEN /\ account_mapping' = MappingEmpty
                    /\ pc' = "loaded"
                    /\ log' = "key empty"
                    /\ UNCHANGED <<key_idx, key_mapping>>
               ELSE /\ key_mapping' = MappingEmpty
                    /\ key_idx' = 2
                    /\ pc' = "load_rows"
                    /\ UNCHANGED <<account_mapping, log>>
    /\ UNCHANGED <<mainVars, supabase, sheets_service, records, table, sheets, calls,
                   uploadVars, tabsVars, botVars>>

\* values().get raises, as it does when there is no Key tab: {} (145-147)
LoadGetRaises ==
    /\ pc = "load"
    /\ sheets_service
    /\ account_mapping' = MappingEmpty
    /\ pc' = "loaded"
    /\ log' = "load failed"
    /\ UNCHANGED <<mainVars, supabase, sheets_service, records, table, sheets, calls,
                   uploadVars, tabsVars, loadVars, botVars>>

\* one row of values[1:]
LoadNextRow ==
    /\ pc = "load_rows"
    /\ key_idx <= Len(values)
    /\ key_mapping' = LoadRow(key_mapping, values[key_idx])
    /\ key_idx' = key_idx + 1
    /\ UNCHANGED <<mainVars, configVars, table, sheets, pc, calls, uploadVars, tabsVars,
                   log, values, botVars>>

\* return mapping (143)
LoadReturn ==
    /\ pc = "load_rows"
    /\ key_idx > Len(values)
    /\ account_mapping' = key_mapping
    /\ pc' = "loaded"
    /\ log' = "loaded"
    /\ UNCHANGED <<mainVars, supabase, sheets_service, records, table, sheets, calls,
                   uploadVars, tabsVars, loadVars, botVars>>

load_account_mapping == LoadCall \/ LoadGetRaises \/ LoadNextRow \/ LoadReturn

----------------------------------------------------------------------------
(* JimmyJohnsWSRBot.run: the batches of one reporting week *)

\* what get_all_stores returns: the number of checkboxes of the dropdown
\* less one
StoreCounts == {1, store_batch_size, store_batch_size + 1, 2 * store_batch_size, MaxStores}

\* a batch count that leaves out a last batch that is not full
NumBatchesFloor(total) == total \div store_batch_size

\* num_batches = (total_stores + batch_size - 1) // batch_size
NumBatches(total) == (total + store_batch_size - 1) \div store_batch_size

\* batch_start and batch_end of a batch
BatchStart(num) == num * store_batch_size
BatchEnd(num, total) == Min(BatchStart(num) + store_batch_size, total)

\* len(all_checkboxes) when the dropdown has opened: none, the Select All
\* box and one box per store, or fewer boxes than that
ShownCheckboxes(num, total) == {0, total + 1, BatchStart(num) + 3}

\* the end of range(batch_start + 1, min(batch_end + 1, len(all_checkboxes)))
BoxLimit(num, total, shown) == Min(BatchEnd(num, total) + 1, shown)

\* the week is selected and its stores are counted; the week is passed over
\* when it cannot be selected or has no store
BotWeek ==
    /\ pc = "bot_week"
    /\ \E selected_week \in BOOLEAN, n \in StoreCounts :
           IF ~selected_week \/ n = 0
           THEN /\ pc' = "bot_week_done"
                /\ log' = "week skipped"
                /\ UNCHANGED <<total_stores, num_batches>>
           ELSE /\ total_stores' = n
                /\ num_batches' = NumBatches(n)
                /\ pc' = "bot_batch"
                /\ UNCHANGED log
    /\ batch_num' = 0
    /\ UNCHANGED <<mainVars, configVars, table, sheets, calls, uploadVars, tabsVars,
                   loadVars, all_checkboxes, box, selected_count, selections, visited,
                   downloads>>

\* a batch: select_store_batch is called; it returns 0 when the dropdown is
\* not found, shows no checkbox or a call on the page raises, and the batch
\* is then over without a download
BotBatch ==
    /\ pc = "bot_batch"
    /\ batch_num < num_batches
    /\ \E dropdown \in BOOLEAN, shown \in ShownCheckboxes(batch_num, total_stores) :
           /\ selections' = Append(selections,
                  [batch_start |-> BatchStart(batch_num),
                   batch_end |-> BatchEnd(batch_num, total_stores),
                   all_checkboxes |-> IF dropdown THEN shown ELSE 0,
                   clicked |-> 0])
           /\ IF ~dropdown \/ shown = 0
              THEN /\ batch_num' = batch_num + 1
                   /\ log' = "no stores selected"
                   /\ UNCHANGED <<pc, all_checkboxes, box, selected_count>>
              ELSE /\ all_checkboxes' = shown
                   /\ box' = BatchStart(batch_num) + 1
                   /\ selected_count' = 0
                   /\ pc' = "bot_select"
                   /\ UNCHANGED <<batch_num, log>>
    /\ UNCHANGED <<mainVars, configVars, table, sheets, calls, uploadVars, tabsVars,
                   loadVars, total_stores, num_batches, visited, downloads>>

\* one checkbox of the loop: it is clicked and counted, or it is checked
\* already or its click raises, which the loop logs
BotCheckbox ==
    /\ pc = "bot_select"
    /\ box < BoxLimit(batch_num, total_stores, all_checkboxes)
    /\ visited' = Append(visited, <<batch_num, box>>)
    /\ \E clicked \in BOOLEAN :
           /\ selected_count' = IF clicked THEN selected_count + 1 ELSE selected_count
           /\ selections' = IF clicked
                            THEN [selections EXCEPT ![Len(selections)].clicked = @ + 1]
                            ELSE selections
    /\ box' = box + 1
    /\ UNCHANGED <<mainVars, configVars, table, sheets, pc, calls, uploadVars, tabsVars,
                   log, loadVars, total_stores, num_batches, batch_num, all_checkboxes,
                   downloads>>

\* the loop is over: select_store_batch returns selected_count, or 0 when
\* closing the dropdown raises, and run calls download_wsr_export when the
\* number returned is positive
BotSelectReturn ==
    /\ pc = "bot_select"
    /\ box >= BoxLimit(batch_num, total_stores, all_checkboxes)
    /\ \E closed \in BOOLEAN :
           LET num_selected == IF closed THEN selected_count ELSE 0
           IN  IF num_selected > 0
               THEN /\ downloads' = Append(downloads, batch_num + 1)
                    /\ log' = "download"
               ELSE /\ log' = "no stores selected"
                    /\ UNCHANGED downloads
    /\ batch_num' = batch_num + 1
    /\ pc' = "bot_batch"
    /\ UNCHANGED <<mainVars, configVars, table, sheets, calls, uploadVars, tabsVars,
                   loadVars, total_stores, num_batches, all_checkboxes, box,
                   selected_count, selections, visited>>

\* range(num_batches) is exhausted
BotWeekDone ==
    /\ pc = "bot_batch"
    /\ batch_num = num_batches
    /\ pc' = "bot_week_done"
    /\ UNCHANGED <<mainVars, configVars, table, sheets, calls, uploadVars, tabsVars,
                   log, loadVars, botVars>>

select_store_batch == BotCheckbox \/ BotSelectReturn

run == BotWeek \/ BotBatch \/ select_store_batch \/ BotWeekDone

----------------------------------------------------------------------------
(* The bulk upload alone, over long lists *)

\* the sinks before their first call
InitSinks ==
    /\ table = <<>>
    /\ calls = {}
    /\ i = 0
    /\ total_uploaded = 0
    /\ insert_ops = <<>>
    /\ by_entity_week = <<>>
    /\ g = 0
    /\ tab_name = <<>>
    /\ tab_records = <<>>
    /\ sheet_id = 0
    /\ data_rows = <<>>
    /\ skipped_count = 0
    /\ tab_calls = <<>>
    /\ log = ""

\* load_account_mapping has returned
InitLoaded ==
    /\ values = <<>>
    /\ key_idx = 0
    /\ key_mapping = <<>>

\* the download bot has not run
InitNoBot ==
    /\ total_stores = 0
    /\ num_batches = 0
    /\ batch_num = 0
    /\ all_checkboxes = 0
    /\ box = 0
    /\ selected_count = 0
    /\ selections = <<>>
    /\ visited = <<>>
    /\ downloads = <<>>

\* main has left its file loop
InitCommon ==
    /\ InitLoaded
    /\ InitNoBot
    /\ wsr_files = <<>>
    /\ f = 1
    /\ sheets = InitialSheets
    /\ pc = "idle"
    /\ InitSinks

InitUpload ==
    /\ supabase \in BOOLEAN
    /\ sheets_service = FALSE
    /\ account_mapping = MappingEmpty
    /\ records \in {BulkList(n) : n \in BulkLengths}
    /\ InitCommon

NextUpload == upload_to_supabase

SpecUpload == InitUpload /\ [][NextUpload]_vars

----------------------------------------------------------------------------
(* Both sinks over one record list, called in any order *)

Init ==
    /\ supabase \in BOOLEAN
    /\ sheets_service \in BOOLEAN
    /\ account_mapping \in (IF sheets_service THEN Mappings ELSE {MappingEmpty})
    /\ records \in RecordLists
    /\ InitCommon

Next == upload_to_supabase \/ create_google_sheets_tabs \/ create_sheet_tab

Spec == Init /\ [][Next]_vars

----------------------------------------------------------------------------
(* The pivot export run twice over the same spreadsheet *)

InitReexport ==
    /\ supabase = FALSE
    /\ sheets_service \in BOOLEAN
    /\ account_mapping \in (IF sheets_service THEN Mappings ELSE {MappingEmpty})
    /\ records \in RecordLists
    /\ InitCommon

NextReexport ==
    \/ TabsCall
    \/ TabsCallAgain
    \/ TabsNextItem
    \/ TabsUnpackRaises
    \/ TabsReturn
    \/ create_sheet_tab

SpecReexport == InitReexport /\ [][NextReexport]_vars

----------------------------------------------------------------------------
(* parse_wsr_file over one file *)

InitParse ==
    /\ wsr_files \in {<<file>> : file \in ParseFiles}
    /\ f = 1
    /\ supabase = FALSE
    /\ sheets_service = FALSE
    /\ account_mapping = MappingEmpty
    /\ records = <<>>
    /\ sheets = RunSheets
    /\ pc = "main"
    /\ InitSinks
    /\ InitLoaded
    /\ InitNoBot

NextParse == MainParseFile \/ MainAfterFiles

SpecParse == InitParse /\ [][NextParse]_vars

----------------------------------------------------------------------------
(* main: the files, then the bulk upload, then the pivot export *)

InitMain ==
    /\ wsr_files \in RunFileLists
    /\ f = 1
    /\ supabase \in BOOLEAN
    /\ sheets_service \in BOOLEAN
    /\ account_mapping \in (IF sheets_service THEN {MappingA, MappingEmpty} ELSE {MappingEmpty})
    /\ records = <<>>
    /\ sheets = RunSheets
    /\ pc = "main"
    /\ InitSinks
    /\ InitLoaded
    /\ InitNoBot

\* no legal entity of store_mapping holds a "|", so that the unpacking of
\* line 449 does not raise in a run over parsed records
NextMain ==
    \/ MainParseFile
    \/ MainAfterFiles
    \/ upload_to_supabase
    \/ MainCallsTabs
    \/ TabsNextItem
    \/ TabsReturn
    \/ create_sheet_tab

SpecMain == InitMain /\ [][NextMain]_vars

----------------------------------------------------------------------------
(* load_account_mapping over one Key tab *)

KeyTables == {<<>>} \cup {<<KeyHeader>> \o rows : rows \in SeqsUpTo(KeyRows, MaxKeyRows)}

KeyDocs ==
    {<<[sheetId |-> 1, title |-> KeyTitle, values |-> t, header_format |-> FALSE]>> :
         t \in KeyTables}
    \cup {<<[sheetId |-> 1, title |-> <<"S", "h", "e", "e", "t", "1">>, values |-> <<>>, header_format |-> FALSE]>>}

InitKey ==
    /\ wsr_files = <<>>
    /\ f = 1
    /\ supabase = FALSE
    /\ sheets_service \in BOOLEAN
    /\ account_mapping = MappingEmpty
    /\ records = <<>>
    /\ sheets \in KeyDocs
    /\ pc = "load"
    /\ InitSinks
    /\ InitLoaded
    /\ InitNoBot

NextKey == load_account_mapping

SpecKey == InitKey /\ [][NextKey]_vars

----------------------------------------------------------------------------
(* The download bot over one reporting week *)

InitBot ==
    /\ wsr_files = <<>>
    /\ f = 1
    /\ supabase = FALSE
    /\ sheets_service = FALSE
    /\ account_mapping = MappingEmpty
    /\ records = <<>>
    /\ sheets = InitialSheets
    /\ pc = "bot_week"
    /\ InitSinks
    /\ InitLoaded
    /\ InitNoBot

NextBot == run

SpecBot == InitBot /\ [][NextBot]_vars

----------------------------------------------------------------------------
(* Claims about upload_to_supabase, checked under SpecUpload *)

CeilDiv(n, d) == (n + d - 1) \div d

RECURSIVE Flatten(_)
Flatten(seqs) == IF seqs = <<>> THEN <<>> ELSE Head(seqs) \o Flatten(Tail(seqs))

Batches == [k \in 1..Len(insert_ops) |-> insert_ops[k].batch]
NoInsertFailed == \A k \in 1..Len(insert_ops) : insert_ops[k].ok
UploadReturned == pc = "idle" /\ log \in {"upload ok", "upload failed"}

\* C1: while no insert has failed, the k-th insert operation carries the
\* contiguous slice records[1000(k-1) : 1000k]; and when the upload returns
\* without a failed insert there were exactly ceil(N/1000) insert operations,
\* every one but possibly the last of exactly 1000 records, whose
\* concatenation, which is also what the table received, is the input list.
C1_BatchesAreSlices ==
    (supabase /\ NoInsertFailed) =>
        /\ \A k \in 1..Len(insert_ops) :
               Batches[k] = [j \in 1..Min(batch_size, Len(records) - batch_size * (k - 1))
                                 |-> records[batch_size * (k - 1) + j]]
        /\ (log = "upload ok") =>
               /\ Len(insert_ops) = CeilDiv(Len(records), batch_size)
               /\ \A k \in 1..(Len(insert_ops) - 1) : Len(Batches[k]) = batch_size
               /\ Flatten(Batches) = records
               /\ \E n \in 0..Len(table) : SubSeq(table, n + 1, Len(table)) = records

\* 2500 records have been uploaded in batches of 1000, 1000 and 500
C1_Witness ==
    /\ log = "upload ok"
    /\ Len(records) = 2500
    /\ [k \in 1..Len(insert_ops) |-> Len(Batches[k])] = <<1000, 1000, 500>>

\* C2: when the upload has returned, an insert operation was issued for every
\* batch of the list, whether or not an earlier insert failed.
C2_FailedBatchIsSkipped ==
    UploadReturned => Len(insert_ops) = CeilDiv(Len(records), batch_size)

----------------------------------------------------------------------------
(* Claims about the pivot export, checked under Spec *)

TabSteps == {"tab_get", "tab_add_or_clear", "tab_update", "tab_format"}
ExportReturned == pc = "idle" /\ log \in {"tabs ok", "tabs failed"}
Abs(x) == IF x < 0 THEN 0 - x ELSE x

\* the records of the tab that resolve in the account mapping, in order
ResolvedRecords ==
    LET Resolves(r) == MappingInfo(account_mapping, r.sales_item) # <<>>
    IN  SelectSeq(tab_records, Resolves)

EntryOf(r) == MappingInfo(account_mapping, r.sales_item)[1]

\* the flag spells Debit / Credit, in whatever letter case
SaysDebit(flag) ==
    flag \in {<<"D", "e", "b", "i", "t">>, <<"d", "e", "b", "i", "t">>,
              <<"D", "E", "B", "I", "T">>}
SaysCredit(flag) ==
    flag \in {<<"C", "r", "e", "d", "i", "t">>, <<"c", "r", "e", "d", "i", "t">>,
              <<"C", "R", "E", "D", "I", "T">>}

\* C3: a step in which a remote call of a tab write raises (the sheet-list
\* read, the add or clear, the value write or the header format) leaves the
\* export in its loop, at the item after the failed one, with the groups
\* untouched: the failed tab write does not end the export.
C3_FailedTabWriteGoesOn ==
    [][(/\ pc \in TabSteps
        /\ Len(tab_calls') = Len(tab_calls)
        /\ tab_calls'[Len(tab_calls)].outcome \in TabSteps) =>
           /\ pc' = "tabs"
           /\ g' = g + 1
           /\ by_entity_week' = by_entity_week]_vars

\* the value write of the first group failed and the tab write of the
\* second group was attempted
C3_Witness ==
    /\ Len(tab_calls) = 2
    /\ tab_calls[1].outcome = "tab_update"
    /\ tab_calls[2].outcome = "written"

\* C4: in the rows of a tab write, a record that resolved to a Debit entry
\* has an amount <= 0, one that resolved to a Credit entry an amount >= 0,
\* and the magnitude is that of the record's amount.
C4_SignConvention ==
    \A k \in 1..Min(Len(data_rows), Len(ResolvedRecords)) :
        LET r == ResolvedRecords[k]
            written == data_rows[k][2]
        IN  /\ SaysDebit(EntryOf(r).debit_credit) => written <= 0
            /\ SaysCredit(EntryOf(r).debit_credit) => written >= 0
            /\ Abs(written) = Abs(r.amount)

\* a positive amount under Debit was written negative and a negative amount
\* under Credit positive
C4_Witness ==
    /\ account_mapping = MappingA
    /\ Len(data_rows) = 2
    /\ ResolvedRecords[1].amount = 3 /\ SaysDebit(EntryOf(ResolvedRecords[1]).debit_credit)
    /\ data_rows[1][2] = 0 - 3
    /\ ResolvedRecords[2].amount = 0 - 2 /\ SaysCredit(EntryOf(ResolvedRecords[2]).debit_credit)
    /\ data_rows[2][2] = 2

\* C5: the sign adjustment applied to the amount of a written row, under the
\* flag of the entry the row's record resolved to, gives that amount again.
C5_AdjustIdempotent ==
    \A k \in 1..Min(Len(data_rows), Len(ResolvedRecords)) :
        AdjustedAmount(data_rows[k][2], EntryOf(ResolvedRecords[k]).debit_credit)
            = data_rows[k][2]

\* a row whose amount the adjustment had flipped
C5_Witness ==
    /\ pc = "tab_format"
    /\ Len(data_rows) >= 1
    /\ Len(ResolvedRecords) >= 1
    /\ data_rows[1][2] # ResolvedRecords[1].amount

\* C6: no step of either sink changes the record list: whichever sink runs
\* first, the records stay as they were read.
C6_RecordsNeverMutated == [][records' = records]_vars

\* a tab holds the adjusted amount -3 under the mapped account, and the
\* bulk upload that ran after the export inserted the record as read
C6_Witness ==
    /\ log = "upload ok"
    /\ Len(data_rows) = 1
    /\ data_rows[1][2] = 0 - 3
    /\ Len(table) = 1
    /\ table[1].amount = 3
    /\ table[1].sales_item = LabelMinusX

\* C7: after the value write of a tab, the data rows plus the skip tally
\* count the records of the group, the data rows are the rows of the records
\* that resolve, in order, each under the account of its entry, and the tab
\* holds the header row and these rows only.
C7_NoUnmappedRow ==
    (pc = "tab_format") =>
        /\ Len(data_rows) + skipped_count = Len(tab_records)
        /\ Len(data_rows) = Len(ResolvedRecords)
        /\ \A k \in 1..Min(Len(data_rows), Len(ResolvedRecords)) :
               data_rows[k][1] = EntryOf(ResolvedRecords[k]).qbo_account
        /\ \A k \in 1..Len(sheets) :
               sheets[k].title = tab_name => sheets[k].values = <<HeaderRow>> \o data_rows

\* a group of two records, one written and one skipped
C7_Witness ==
    /\ pc = "tab_format"
    /\ Len(tab_records) = 2
    /\ Len(data_rows) = 1
    /\ skipped_count = 1

\* C8 as claimed: the entry keyed by the label; else, when the label begins
\* with "- ", "+ " or "= ", the entry keyed by the label without that one
\* prefix; else none.
Prefixes == {<<"-", " ">>, <<"+", " ">>, <<"=", " ">>}
HasPrefix(label) == Len(label) >= 2 /\ SubSeq(label, 1, 2) \in Prefixes
SingleStripResolution(mapping, label) ==
    IF label \in DOMAIN mapping
    THEN <<mapping[label]>>
    ELSE IF HasPrefix(label) /\ SubSeq(label, 3, Len(label)) \in DOMAIN mapping
         THEN <<mapping[SubSeq(label, 3, Len(label))]>>
         ELSE <<>>

\* C8: every record of a written tab was resolved as the single-strip
\* resolution resolves its label.
C8_SingleStripOnly ==
    (pc = "tab_format") =>
        \A k \in 1..Len(tab_records) :
            MappingInfo(account_mapping, tab_records[k].sales_item)
                = SingleStripResolution(account_mapping, tab_records[k].sales_item)

\* the (legal_entity, week_ending) pair of a record, and the records of a pair
PairOf(r) == <<r.legal_entity, r.week_ending>>
Pairs == {PairOf(records[k]) : k \in 1..Len(records)}
RecordsOfPair(p) ==
    LET HasPair(r) == PairOf(r) = p
    IN  SelectSeq(records, HasPair)

\* C9: while the export runs, the groups are one per pair of the input, each
\* group holds exactly the input records of its pair (none lost, none twice,
\* in input order), and no two groups share a pair.
C9_GroupingPartitions ==
    (pc \in TabSteps \cup {"tabs"}) =>
        /\ Len(by_entity_week) = Cardinality(Pairs)
        /\ \A k \in 1..Len(by_entity_week) :
               /\ by_entity_week[k].records # <<>>
               /\ by_entity_week[k].records
                      = RecordsOfPair(PairOf(by_entity_week[k].records[1]))
        /\ \A j, k \in 1..Len(by_entity_week) :
               PairOf(by_entity_week[j].records[1]) = PairOf(by_entity_week[k].records[1])
                   => j = k

\* two groups out of two records that differ in the week only
C9_Witness ==
    /\ pc = "tabs"
    /\ Len(records) = 2
    /\ records[1].legal_entity = records[2].legal_entity
    /\ records[1].week_ending # records[2].week_ending
    /\ Len(by_entity_week) = 2

\* C10: when the export has returned, one tab write was attempted per pair
\* of the input, under the name "<legalEntity> <weekEnding>" and with the
\* records of the pair.
C10_OneTabPerPair ==
    (sheets_service /\ ExportReturned) =>
        /\ Len(tab_calls) = Cardinality(Pairs)
        /\ {[tab_name |-> tab_calls[k].tab_name, records |-> tab_calls[k].records] :
                k \in 1..Len(tab_calls)}
           = {[tab_name |-> p[1] \o <<" ">> \o p[2], records |-> RecordsOfPair(p)] :
                p \in Pairs}

----------------------------------------------------------------------------
(* Claims about the tabs of the spreadsheet *)

\* the sign rule as stated: Debit is written negative, Credit positive
SignedAmount(amount, flag) ==
    IF SaysDebit(flag) /\ amount > 0 THEN 0 - amount
    ELSE IF SaysCredit(flag) /\ amount < 0 THEN 0 - amount
    ELSE amount

\* the row of a resolving record: account, signed amount, week, description,
\* blank, class
ExpectedRow(r) ==
    << EntryOf(r).qbo_account,
       SignedAmount(r.amount, EntryOf(r).debit_credit),
       r.week_ending,
       r.description,
       <<>>,
       r.class_code >>

\* the rows of the records of recs that resolve, in the order of recs
ExpectedRows(recs) ==
    LET Resolves(r) == MappingInfo(account_mapping, r.sales_item) # <<>>
        resolved == SelectSeq(recs, Resolves)
    IN  [k \in 1..Len(resolved) |-> ExpectedRow(resolved[k])]

Titles(doc) == [k \in 1..Len(doc) |-> doc[k].title]
TitleSet(doc) == {doc[k].title : k \in 1..Len(doc)}
ValuesOfTab(name) == sheets[CHOOSE k \in 1..Len(sheets) : sheets[k].title = name].values

\* C11: after the value write of a tab, the tab holds the header row Account,
\* Amount, Journal Date, Description, Name, Class and then one row per
\* resolving record of the group, in the order of the group, each row the
\* account of the entry, the signed amount, the week ending, the
\* description, a blank and the class code of its record.
C11_TabValues ==
    (pc = "tab_format") =>
        /\ tab_name \in TitleSet(sheets)
        /\ ValuesOfTab(tab_name)
               = <<<<"Account", "Amount", "Journal Date", "Description", "Name", "Class">>>>
                     \o ExpectedRows(tab_records)
        /\ data_rows = ExpectedRows(tab_records)

\* a tab of two rows, of two records of different accounts, in record order
C11_Witness ==
    /\ pc = "tab_format"
    /\ Len(tab_records) = 2
    /\ Len(data_rows) = 2
    /\ tab_records[1].sales_item = LabelPlusY
    /\ tab_records[2].sales_item = LabelMinusX
    /\ data_rows[1][1] = <<"q", "2">>
    /\ data_rows[2][1] = <<"q", "1">>

\* C12: the spreadsheet never holds two tabs of one name; a step taken while
\* the tab being written exists leaves the tabs and their order as they are,
\* and a step that changes the tabs puts the one new tab, under the name
\* being written, leftmost and leaves the others in their order.
C12_TabsIdempotentByName ==
    /\ [](\A j, k \in 1..Len(sheets) : sheets[j].title = sheets[k].title => j = k)
    /\ [][/\ (tab_name \in TitleSet(sheets)) => Titles(sheets') = Titles(sheets)
          /\ (Titles(sheets') # Titles(sheets)) =>
                 /\ pc = "tab_add_or_clear"
                 /\ Titles(sheets') = <<tab_name>> \o Titles(sheets)]_vars

\* a second export has rewritten the tab it found and the tab the first
\* export had added, and the tabs are the three of the first export
C12_Witness ==
    /\ "tabs again" \in calls
    /\ pc = "idle"
    /\ log = "tabs ok"
    /\ Len(tab_calls) = 2
    /\ tab_calls[1].outcome = "written"
    /\ tab_calls[2].outcome = "written"
    /\ Len(sheets) = 3
    /\ sheets[3].title = EntityAE \o <<" ">> \o WeekD1

\* C13: a tab whose write has succeeded in the running or last export holds
\* the header row and the rows of that write and nothing else, whatever it
\* held before; these values depend on the records and the mapping alone, so
\* that a second export of the same records leaves the values of the first.
C13_TabHoldsLastWriteOnly ==
    \A k \in 1..Len(tab_calls) :
        (tab_calls[k].outcome = "written") =>
            /\ tab_calls[k].tab_name \in TitleSet(sheets)
            /\ ValuesOfTab(tab_calls[k].tab_name)
                   = <<HeaderRow>> \o ExpectedRows(tab_calls[k].records)

\* the second export has written one row to the tab that held three before
\* the first export
C13_Witness ==
    /\ "tabs again" \in calls
    /\ pc = "idle"
    /\ log = "tabs ok"
    /\ Len(tab_calls) = 1
    /\ tab_calls[1].outcome = "written"
    /\ tab_calls[1].tab_name = EntityAE \o <<" ">> \o WeekD1
    /\ Len(ValuesOfTab(tab_calls[1].tab_name)) = 2

----------------------------------------------------------------------------
(* Claims about parse_wsr_file, checked under SpecParse *)

\* the one file of the run and its sheet
TheFile == wsr_files[1]
TheSheet == wsr_files[1].df

\* the cell of row r, column c of a sheet: <<>> when the sheet has none
CellAt(df, r, c) ==
    IF r < Len(df) /\ c < Len(df[r + 1]) THEN <<df[r + 1][c + 1]>> ELSE <<>>

\* the reporting-week cell is missing or is not a date
BadWeekCell(df) ==
    \/ CellAt(df, 0, 2) = <<>>
    \/ CellAt(df, 0, 2)[1].kind = "nan"
    \/ to_datetime(CellAt(df, 0, 2)[1].text) = <<>>

\* the store-identifier cell is missing or is not a number
BadStoreCell(df) ==
    \/ CellAt(df, 2, 2) = <<>>
    \/ CellAt(df, 2, 2)[1].kind = "nan"
    \/ float(CellAt(df, 2, 2)[1].text) = <<>>

\* the rows among the first ten that hold both names of the table header
TableHeaders(df) ==
    {idx \in 0..(Min(10, Len(df)) - 1) :
         /\ \E c \in 1..Len(df[idx + 1]) : df[idx + 1][c].text = <<"S", "a", "l", "e", "s", " ", "I", "t", "e", "m">>
         /\ \E c \in 1..Len(df[idx + 1]) : df[idx + 1][c].text = <<"S", "u", "m", "m", "a", "r", "y">>}

\* a file that is rejected: it cannot be read, a header cell is bad or the
\* store is 0, or there is no table header
Rejected(file) ==
    \/ ~file.readable
    \/ BadWeekCell(file.df)
    \/ BadStoreCell(file.df)
    \/ float(CellAt(file.df, 2, 2)[1].text) = <<0>>
    \/ TableHeaders(file.df) = {}

\* the data rows of an accepted sheet: the rows from the third under the
\* table header on
DataRowsOf(df) ==
    LET h == CHOOSE idx \in TableHeaders(df) : \A other \in TableHeaders(df) : idx <= other
    IN  SubSeq(df, h + 4, Len(df))

IsBlank(label) == \A k \in 1..Len(label) : label[k] \in {" ", "\t", "\n"}

\* a data row whose label is neither blank nor a summary marker
Survives(row) ==
    /\ row[1].kind # "nan"
    /\ ~IsBlank(row[1].text)
    /\ strip(row[1].text) \notin
           {<<"T", "o", "t", "a", "l", " ", "o", "f", " ", "A", "b", "o", "v", "e">>, <<"-", " ", "O", "V", "E", "R", "-", "R", "I", "N", "G", "S">>, <<"=", " ", "A", "d", "j", "u", "s", "t", "e", "d", " ", "S", "a", "l", "e", "s">>}

\* C14: no record of a report has a blank label or one of the labels Total of
\* Above, - OVER-RINGS, = Adjusted Sales; and a row of such a label is passed
\* over without the file being rejected or another row being lost: every
\* other data row of an accepted file has its record.
C14_NoBlankOrMarkerRecord ==
    /\ \A k \in 1..Len(records) :
           /\ ~IsBlank(records[k].sales_item)
           /\ records[k].sales_item # <<"T", "o", "t", "a", "l", " ", "o", "f", " ", "A", "b", "o", "v", "e">>
           /\ records[k].sales_item # <<"-", " ", "O", "V", "E", "R", "-", "R", "I", "N", "G", "S">>
           /\ records[k].sales_item # <<"=", " ", "A", "d", "j", "u", "s", "t", "e", "d", " ", "S", "a", "l", "e", "s">>
    /\ (f = 2 /\ ~Rejected(TheFile)) =>
           \A k \in 1..Len(DataRowsOf(TheSheet)) :
               Survives(DataRowsOf(TheSheet)[k]) =>
                   \E j \in 1..Len(records) :
                       records[j].sales_item = strip(DataRowsOf(TheSheet)[k][1].text)

\* a report of a marker row and an item row has given the record of the item
C14_Witness ==
    /\ f = 2
    /\ TheFile = File(Timestamp(2024, 1, 7), Float(2811), 3, HeaderBoth,
                      <<ItemAdjusted, ItemX>>)
    /\ Len(records) = 1
    /\ records[1].sales_item = <<"X">>

\* C15: the records of an accepted report are, one for one and in row order,
\* its data rows whose label is neither blank nor a summary marker; each
\* record carries the label of its row and, where the row holds a number, that
\* number as its amount.
C15_RecordsAreSurvivingRows ==
    (f = 2 /\ ~Rejected(TheFile)) =>
        LET surviving == SelectSeq(DataRowsOf(TheSheet), Survives)
        IN  /\ Len(records) = Len(surviving)
            /\ \A k \in 1..Len(surviving) :
                   /\ records[k].sales_item = strip(surviving[k][1].text)
                   /\ (surviving[k][2].kind \in {"float", "int"}) =>
                          records[k].amount = surviving[k][2].num

\* a report of two items has given their two records in the order of the rows
C15_Witness ==
    /\ f = 2
    /\ TheFile = File(Text(<<"0", "1", "/", "1", "4", "/", "2", "0", "2", "4">>), Text(<<"2", "6", "8", "2">>), 9, HeaderBoth,
                      <<ItemPlusY, ItemX>>)
    /\ Len(records) = 2
    /\ records[1].sales_item = <<"+", " ", "Y">> /\ records[1].amount = 0 - 2
    /\ records[2].sales_item = <<"X">> /\ records[2].amount = 3

\* C17: a report whose reporting-week cell or store-identifier cell is
\* missing or cannot be parsed gives no record; and no record is without its
\* week_ending or its store_number.
C17_BadHeaderCellGivesNothing ==
    /\ (BadWeekCell(TheSheet) \/ BadStoreCell(TheSheet)) => records = <<>>
    /\ \A k \in 1..Len(records) :
           /\ Len(records[k].week_ending) = 10
           /\ records[k].store_number # 0

\* a report with an item, a table header and a store, whose week cell is not
\* a date, has been parsed and the run has ended without a record
C17_Witness ==
    /\ pc = "main_done"
    /\ TheFile = File(Text(<<"W", "e", "e", "k", " ", "2">>), Float(2811), 3, HeaderBoth, <<ItemX>>)
    /\ records = <<>>

----------------------------------------------------------------------------
(* Claims about a whole run of main, checked under SpecMain *)

\* what the files of the run give, rejected files giving nothing
RecordsOfFiles(n) ==
    Flatten([k \in 1..n |-> IF Rejected(wsr_files[k]) THEN <<>>
                            ELSE parse_wsr_file(wsr_files[k])])

BothSinksCalled == calls = {"upload", "tabs"}

\* main has returned: at line 680, or at its end with both sinks back
RunEnded == pc = "main_done" \/ (pc = "idle" /\ BothSinksCalled)

\* the records the export has grouped, group after group
GroupedRecords == Flatten([k \in 1..Len(by_entity_week) |-> by_entity_week[k].records])

\* the export was called with all of recs: every record is in a group
ExportCovers(recs) ==
    /\ Len(GroupedRecords) = Len(recs)
    /\ \A k \in 1..Len(recs) : \E j \in 1..Len(GroupedRecords) : GroupedRecords[j] = recs[k]

InStoreDirectory(n) == n \in {2811, 2682}

C18_RejectedFileIsPassedOver ==
    /\ \A k \in 1..Len(wsr_files) :
           Rejected(wsr_files[k]) => parse_wsr_file(wsr_files[k]) = <<>>
    /\ records = RecordsOfFiles(f - 1)
    /\ (pc # "main") => f = Len(wsr_files) + 1
    /\ (supabase /\ insert_ops # <<>>) =>
           insert_ops[1].batch = RecordsOfFiles(Len(wsr_files))
    /\ (sheets_service /\ "tabs" \in calls) =>
           ExportCovers(RecordsOfFiles(Len(wsr_files)))
    /\ (RunEnded /\ RecordsOfFiles(Len(wsr_files)) # <<>>) => BothSinksCalled
    /\ (pc = "idle" /\ "tabs" \in calls) => "upload" \in calls

\* a run over a rejected file and then a good one has ended with the records
\* of the good file in the table and in a written tab
C18_Witness ==
    /\ RunEnded
    /\ wsr_files = <<FileBadWeek, FileWest>>
    /\ Len(table) = 2
    /\ Len(tab_calls) = 1
    /\ tab_calls[1].outcome = "written"
    /\ Len(tab_calls[1].records) = 2

\* the states of a run: nothing is called or touched while no file gives a
\* record, and a sink is only called with the records of all the files
SinksOnlyGetAllRecords ==
    /\ (RecordsOfFiles(Len(wsr_files)) = <<>>) =>
           /\ pc \in {"main", "main_done"}
           /\ calls = {}
           /\ insert_ops = <<>> /\ table = <<>>
           /\ tab_calls = <<>> /\ sheets = RunSheets
    /\ (RunEnded /\ RecordsOfFiles(Len(wsr_files)) = <<>>) =>
           pc = "main_done" /\ log = "no records"
    /\ (RunEnded /\ RecordsOfFiles(Len(wsr_files)) # <<>>) =>
           pc = "idle" /\ BothSinksCalled
    /\ (calls # {}) =>
           records # <<>> /\ records = RecordsOfFiles(Len(wsr_files))

\* C19: while no file gives a record, no sink is called, no insert is issued
\* and no tab is touched, and the run of such files ends in the state that
\* reports it; a run of files that give a record ends with both sinks called,
\* and a sink is only called with the records of all the files; no step is
\* taken once main has returned.
C19_NoRecordsIsTerminal ==
    /\ []SinksOnlyGetAllRecords
    /\ [][~RunEnded]_vars

\* a run over two files that give no record has ended
C19_Witness ==
    /\ pc = "main_done"
    /\ Len(wsr_files) = 2
    /\ wsr_files[1] # wsr_files[2]
    /\ calls = {}

\* C20: a sink that is not configured issues no remote call; a run with
\* records and a configured pivot sink ends with the export called over all
\* the records and every group attempted, whether the bulk sink is
\* configured or not and whether its insert failed or not; and a run with
\* records and a configured bulk sink whose insert did not fail ends with all
\* the records in the table, whether the pivot sink is configured or not.
C20_SinksAreIndependent ==
    /\ ~supabase => (table = <<>> /\ insert_ops = <<>>)
    /\ ~sheets_service => (sheets = RunSheets /\ tab_calls = <<>>)
    /\ (RunEnded /\ records # <<>> /\ sheets_service) =>
           /\ "tabs" \in calls
           /\ ExportCovers(records)
           /\ Len(tab_calls) = Len(by_entity_week)
    /\ (RunEnded /\ records # <<>> /\ supabase /\ NoInsertFailed) =>
           /\ "upload" \in calls
           /\ table = records

\* a run whose insert failed has ended with its two tabs written
C20_Witness ==
    /\ RunEnded
    /\ supabase /\ sheets_service
    /\ ~NoInsertFailed
    /\ table = <<>>
    /\ Len(tab_calls) = 2
    /\ tab_calls[1].outcome = "written"
    /\ tab_calls[2].outcome = "written"

----------------------------------------------------------------------------
(* Claims about the table header and the data rows, checked under SpecParse *)

\* the file is read and its two header cells are good
HeaderCellsGood(file) ==
    /\ file.readable
    /\ ~BadWeekCell(file.df)
    /\ ~BadStoreCell(file.df)
    /\ float(CellAt(file.df, 2, 2)[1].text) # <<0>>

\* the first of the rows that hold both names of the table header
FirstTableHeader(df) ==
    CHOOSE idx \in TableHeaders(df) : \A other \in TableHeaders(df) : idx <= other

\* C22: the table header is the first row, among the rows of index 0 to 9,
\* that holds both Sales Item and Summary: the records of a file are those of
\* the rows under that row, and a file with no such row among its first ten
\* rows gives no record, also when a row of index 10 holds both.
C22_HeaderAmongFirstTen ==
    (f = 2 /\ HeaderCellsGood(TheFile)) =>
        IF \A idx \in 0..9 :
               idx < Len(TheSheet) =>
                   ~(/\ \E c \in 1..3 : TheSheet[idx + 1][c].text = <<"S", "a", "l", "e", "s", " ", "I", "t", "e", "m">>
                     /\ \E c \in 1..3 : TheSheet[idx + 1][c].text = <<"S", "u", "m", "m", "a", "r", "y">>)
        THEN records = <<>>
        ELSE LET under == SubSeq(TheSheet, FirstTableHeader(TheSheet) + 4, Len(TheSheet))
                 labels == SelectSeq(under, Survives)
             IN  /\ Len(records) = Len(labels)
                 /\ \A k \in 1..Len(labels) :
                        records[k].sales_item = strip(labels[k][1].text)

\* a file whose only table header is at index 10 has given no record
C22_Witness ==
    /\ pc = "main_done"
    /\ TheFile = File(Timestamp(2024, 1, 7), Float(2811), 10, HeaderBoth, <<ItemX>>)
    /\ records = <<>>

\* C23: with the table header at index h, the records are as many as the
\* rows of index h + 3 and above with an accepted label, each such row has
\* its record, and so no row of index below h + 3 gives a record.
C23_DataRowsFromThirdUnderHeader ==
    (f = 2 /\ ~Rejected(TheFile)) =>
        LET h == FirstTableHeader(TheSheet)
            candidates == {idx \in (h + 3)..(Len(TheSheet) - 1) : Survives(TheSheet[idx + 1])}
        IN  /\ Len(records) = Cardinality(candidates)
            /\ \A idx \in candidates :
                   \E k \in 1..Len(records) :
                       records[k].sales_item = strip(TheSheet[idx + 1][1].text)

\* a file with its table header at index 5 and one item, at index 8, has
\* given the record of the item alone
C23_Witness ==
    /\ f = 2
    /\ TheFile = File(Timestamp(2024, 1, 7), Float(2811), 5, HeaderBoth, <<ItemX>>)
    /\ TheSheet[9] = ItemX
    /\ Len(records) = 1
    /\ records[1].sales_item = <<"X">>

\* the amount cell is empty or is not a number
BadAmountCell(cell) ==
    \/ cell.kind = "nan"
    \/ cell.kind = "str" /\ float(cell.text) = <<>>

\* C24: a data row with an accepted label whose amount cell is empty or is
\* not a number gives its one record, with the amount 0, and the rows after
\* it give theirs.
C24_BadAmountIsZero ==
    (f = 2 /\ ~Rejected(TheFile)) =>
        LET surviving == SelectSeq(DataRowsOf(TheSheet), Survives)
        IN  /\ Len(records) = Len(surviving)
            /\ \A k \in 1..Len(surviving) :
                   BadAmountCell(surviving[k][2]) =>
                       /\ records[k].sales_item = strip(surviving[k][1].text)
                       /\ records[k].amount = 0

\* a row whose amount is a text and the row after it have given a record of
\* amount 0 and a record of amount 3
C24_Witness ==
    /\ f = 2
    /\ TheFile = File(Timestamp(2024, 1, 7), Float(2811), 3, HeaderBoth,
                      <<ItemZText, ItemX>>)
    /\ Len(records) = 2
    /\ records[1].sales_item = <<"Z">> /\ records[1].amount = 0
    /\ records[2].sales_item = <<"X">> /\ records[2].amount = 3

\* C29: a report whose store-identifier cell is the number 0 gives no
\* record, as a report without the cell does.
C29_StoreZeroIsMissing ==
    (/\ CellAt(TheSheet, 2, 2) # <<>>
     /\ CellAt(TheSheet, 2, 2)[1].kind # "nan"
     /\ float(CellAt(TheSheet, 2, 2)[1].text) = <<0>>) =>
        records = <<>>

\* a report of store 0 with a good week, a table header and an item has been
\* parsed and the run has ended without a record
C29_Witness ==
    /\ pc = "main_done"
    /\ TheFile = File(Timestamp(2024, 1, 7), Float(0), 3, HeaderBoth, <<ItemX>>)
    /\ records = <<>>

----------------------------------------------------------------------------
(* Claims about the steps of a tab write, checked under Spec *)

\* the step after a step of a tab write that returns
StepAfter(step) ==
    CASE step = "tab_get" -> "tab_add_or_clear"
      [] step = "tab_add_or_clear" -> "tab_update"
      [] step = "tab_update" -> "tab_format"
      [] step = "tab_format" -> "tabs"

\* the outcome of the running tab write
Outcome == tab_calls[Len(tab_calls)].outcome

\* a tab whose value write failed holds no value, and a tab whose header
\* format failed holds the values written
FailedTabIsLeftAsItWas ==
    \A k \in 1..Len(tab_calls) :
        /\ (tab_calls[k].outcome = "tab_update") =>
               /\ tab_calls[k].tab_name \in TitleSet(sheets)
               /\ ValuesOfTab(tab_calls[k].tab_name) = <<>>
        /\ (tab_calls[k].outcome = "tab_format") =>
               /\ tab_calls[k].tab_name \in TitleSet(sheets)
               /\ ValuesOfTab(tab_calls[k].tab_name)
                      = <<HeaderRow>> \o ExpectedRows(tab_calls[k].records)

\* C27: a tab write takes its steps in the order read of the sheet list, add
\* or clear, value write, header format; the read changes no tab; a step
\* that fails changes no tab and ends the tab write, no later step of it
\* being taken; so a tab that was cleared and whose value write failed stays
\* without values.
C27_TabWriteStepOrder ==
    /\ []FailedTabIsLeftAsItWas
    /\ [][(pc \in TabSteps) =>
              /\ Len(tab_calls') = Len(tab_calls)
              /\ \/ /\ Outcome' \in {"running", "written"}
                    /\ pc' = StepAfter(pc)
                    /\ (pc = "tab_get") => sheets' = sheets
                    /\ (Outcome' = "written") <=> (pc = "tab_format")
                 \/ /\ Outcome' = pc
                    /\ pc' = "tabs"
                    /\ sheets' = sheets]_vars

\* the tab of an earlier export was cleared, its value write failed and the
\* export has returned: the tab holds nothing
C27_Witness ==
    /\ pc = "idle"
    /\ Len(tab_calls) = 1
    /\ tab_calls[1].tab_name = EntityAE \o <<" ">> \o WeekD1
    /\ tab_calls[1].outcome = "tab_update"
    /\ sheets[2].title = EntityAE \o <<" ">> \o WeekD1
    /\ sheets[2].values = <<>>
    /\ sheets[2].header_format

\* no record of recs resolves in the account mapping
NoneResolves(recs) ==
    \A k \in 1..Len(recs) : MappingInfo(account_mapping, recs[k].sales_item) = <<>>

\* C28: the tab of a group of which no record resolves is written like any
\* other: after its value write it holds the header row and nothing else,
\* every record of the group being tallied as skipped; and every group the
\* loop has come to has had its tab write, whatever resolves in it.
C28_EmptyGroupIsWritten ==
    /\ (pc = "tab_format" /\ NoneResolves(tab_records)) =>
           /\ tab_name \in TitleSet(sheets)
           /\ ValuesOfTab(tab_name) = <<HeaderRow>>
           /\ skipped_count = Len(tab_records)
    /\ \A k \in 1..Len(tab_calls) :
           (tab_calls[k].outcome = "written" /\ NoneResolves(tab_calls[k].records)) =>
               ValuesOfTab(tab_calls[k].tab_name) = <<HeaderRow>>
    /\ (pc = "tabs") => Len(tab_calls) = g - 1
    /\ (pc \in TabSteps) => Len(tab_calls) = g

\* with an empty mapping, an export of two groups has cleared and written
\* the tab it found and added and written a new one, each with the header
\* row only
C28_Witness ==
    /\ pc = "idle"
    /\ sheets_service
    /\ account_mapping = MappingEmpty
    /\ Len(tab_calls) = 2
    /\ tab_calls[1].outcome = "written"
    /\ tab_calls[2].outcome = "written"
    /\ Len(sheets) = 3
    /\ sheets[1].values = <<HeaderRow>>
    /\ sheets[3].values = <<HeaderRow>>

----------------------------------------------------------------------------
(* Claims about load_account_mapping, checked under SpecKey *)

\* the mapping was loaded from the rows of a Key tab
LoadedFromRows == pc = "loaded" /\ log = "loaded"

\* the rows under the header row
RowsUnderHeader == {k \in 2..Len(values) : TRUE}

\* cell c of a row, "" where the row ends before it
CellOf(row, c) == IF Len(row) >= c THEN row[c] ELSE <<>>

\* the flag the rule of the claim gives a row, its cells taken trimmed
FlagOfRow(row) ==
    IF CellOf(row, 4) # <<>>
    THEN strip(CellOf(row, 4))
    ELSE IF lower(strip(CellOf(row, 3))) \in {<<"d", "e", "b", "i", "t">>, <<"c", "r", "e", "d", "i", "t">>}
         THEN strip(CellOf(row, 3))
         ELSE <<"D", "e", "b", "i", "t">>

\* the flag the rule of the claim gives a row, its cells taken as they are
FlagOfRowAsIs(row) ==
    IF CellOf(row, 4) # <<>>
    THEN CellOf(row, 4)
    ELSE IF lower(CellOf(row, 3)) \in {<<"d", "e", "b", "i", "t">>, <<"c", "r", "e", "d", "i", "t">>}
         THEN CellOf(row, 3)
         ELSE <<"D", "e", "b", "i", "t">>

\* the rows that give an entry: label and external account not empty once
\* trimmed
EntryRows ==
    {k \in RowsUnderHeader :
         strip(CellOf(values[k], 1)) # <<>> /\ strip(CellOf(values[k], 2)) # <<>>}

\* C21: every entry of the loaded account mapping has a flag that spells
\* Debit or Credit, whatever the Key tab holds.
C21_FlagIsDebitOrCredit ==
    (pc = "loaded") =>
        \A label \in DOMAIN account_mapping :
            lower(account_mapping[label].debit_credit) \in {<<"d", "e", "b", "i", "t">>, <<"c", "r", "e", "d", "i", "t">>}

\* C25 as stated: every row under the header whose label and external
\* account are not empty has an entry whose flag is column D when that is
\* present and not empty, else column C when it spells debit or credit in
\* whatever case, else Debit; the other rows and the header row give no entry.
C25_FlagByColumnAsStated ==
    LoadedFromRows =>
        /\ \A k \in RowsUnderHeader :
               (CellOf(values[k], 1) # <<>> /\ CellOf(values[k], 2) # <<>>) =>
                   /\ CellOf(values[k], 1) \in DOMAIN account_mapping
                   /\ account_mapping[CellOf(values[k], 1)].debit_credit
                          = FlagOfRowAsIs(values[k])
        /\ \A label \in DOMAIN account_mapping :
               \E k \in RowsUnderHeader :
                   /\ CellOf(values[k], 1) = label
                   /\ CellOf(values[k], 2) # <<>>

\* C25: the loaded mapping has an entry for exactly the trimmed labels of the
\* rows under the header whose label and external account are not empty once
\* trimmed, and the entry of a label is that of the last such row: its
\* trimmed external account and, as flag, trimmed column D when column D is
\* present and not empty, else trimmed column C when that spells debit or
\* credit in whatever case, else Debit.
C25_FlagByColumn ==
    LoadedFromRows =>
        /\ DOMAIN account_mapping = {strip(values[k][1]) : k \in EntryRows}
        /\ \A k \in EntryRows :
               (\A j \in EntryRows : strip(values[j][1]) = strip(values[k][1]) => j <= k) =>
                   account_mapping[strip(values[k][1])]
                       = [qbo_account |-> strip(values[k][2]),
                          debit_credit |-> FlagOfRow(values[k])]

\* a Key tab whose column D overrides a column C that spells Credit, and
\* whose other row has cells with blanks around them
C25_Witness ==
    /\ LoadedFromRows
    /\ Len(values) = 3
    /\ values[2] = <<<<"+", " ", "Y">>, <<"q", "2">>, <<"C", "r", "e", "d", "i", "t">>, <<"N", "/", "A">>>>
    /\ values[3] = <<<<"X">>, <<"q", "3">>, <<" ", "C", "r", "e", "d", "i", "t", " ">>>>
    /\ account_mapping[<<"X">>].debit_credit = <<"C", "r", "e", "d", "i", "t">>
    /\ account_mapping[<<"+", " ", "Y">>].debit_credit = <<"N", "/", "A">>

----------------------------------------------------------------------------
(* Claims about the batches of the download bot, checked under SpecBot *)

\* the checkbox indices select_store_batch call k is asked to select
IndicesOf(k) == (selections[k].batch_start + 1)..selections[k].batch_end

\* the checkbox indices the loop of call k has come to
VisitedIn(k) == {visited[j][2] : j \in {j \in 1..Len(visited) : visited[j][1] = k - 1}}

\* C26: a week of N stores has ceil(N/15) batches; the batches are taken in
\* ascending order, batch k being asked to select the checkbox indices
\* 15(k-1)+1 .. min(15k, N), so that when the week is done every index of
\* 1..N has been asked for in exactly one batch; the loop of a batch comes
\* to indices of that batch only, to none twice, and to all of them when the
\* dropdown shows the N+1 checkboxes; and download_wsr_export is called for
\* a batch only if a store was selected in it, the batch numbers ascending.
C26_BatchesPartitionStores ==
    (pc \in {"bot_batch", "bot_select", "bot_week_done"} /\ total_stores > 0) =>
        /\ num_batches = CeilDiv(total_stores, 15)
        /\ Len(selections) = IF pc = "bot_select" THEN batch_num + 1 ELSE batch_num
        /\ \A k \in 1..Len(selections) :
               /\ selections[k].batch_start = 15 * (k - 1)
               /\ selections[k].batch_end = Min(15 * k, total_stores)
               /\ VisitedIn(k) \subseteq IndicesOf(k)
               /\ (selections[k].all_checkboxes = total_stores + 1
                       /\ (k <= batch_num \/ box > selections[k].batch_end)) =>
                      VisitedIn(k) = IndicesOf(k)
        /\ \A j1, j2 \in 1..Len(visited) : j1 < j2 => visited[j1][2] < visited[j2][2]
        /\ (pc = "bot_week_done") =>
               /\ Len(selections) = CeilDiv(total_stores, 15)
               /\ \A s \in 1..total_stores :
                      Cardinality({k \in 1..Len(selections) : s \in IndicesOf(k)}) = 1
               /\ \A k \in 1..Len(selections) : IndicesOf(k) \subseteq 1..total_stores
        /\ \A d \in 1..Len(downloads) :
               /\ downloads[d] \in 1..Len(selections)
               /\ selections[downloads[d]].clicked > 0
               /\ VisitedIn(downloads[d]) # {}
               /\ \A e \in 1..(d - 1) : downloads[e] < downloads[d]

\* a week of 31 stores is done in three batches: the second found no
\* dropdown and had no download, the others showed all the checkboxes
C26_Witness ==
    /\ pc = "bot_week_done"
    /\ total_stores = 31
    /\ Len(selections) = 3
    /\ downloads = <<1, 3>>
    /\ VisitedIn(1) = 1..15
    /\ VisitedIn(2) = {}
    /\ VisitedIn(3) = {31}

====
